---- MODULE Spec2Model ----
(***************************************************************************)
(* Verification model of the dollkongbot document ingestion pipeline:      *)
(*   - TextChunker            (backend/services/chunker.py)                *)
(*   - MergedCellProcessor and FileParser (backend/utils/file_parser.py)   *)
(*   - the ingestion run      (backend/routers/upload.py, board.py)        *)
(*   - VectorDatabase.insert_documents (backend/services/vector_db.py)     *)
(* Strings are sequences of one-character strings, so that len(), strip(), *)
(* split() and slicing are computed as the Python code computes them.      *)
(***************************************************************************)
EXTENDS Integers, Sequences, FiniteSets, TLC

VARIABLES
    sys,          \* which component this behaviour exercises
    \* ---- TextChunker ----
    text,         \* the argument of chunk_text
    maxLen,       \* self.max_chunk_length
    overlapLen,   \* self.overlap_length
    cpc,          \* "input" | "chunked" | "rechunked"
    nunits,       \* number of units appended to the input text so far
    sentences,    \* result of _split_sentences(text)
    packed,       \* chunks of _create_chunks before _add_overlaps
    chunks,       \* result of _create_chunks (after _add_overlaps)
    out,          \* result of chunk_text(text)
    out2,         \* result of chunk_text(' '.join(out))
    \* ---- FileParser: spreadsheet and word-processor scans ----
    fmt,             \* "xlsx" | "docx": the extractor that is running
    sheet_no,        \* index into workbook.sheetnames of the sheet being scanned
    row_idx,         \* row of the sheet's table scanned last (the header is row 1)
    nrows,           \* rows scanned so far in the whole workbook
    lvl1_value,      \* _extract_from_xlsx: label remembered for the next rows
    lvl2_value,
    lvl3_value,
    sheet_rows,      \* the table rows read so far: sheet, row, cells, labels given
    cell_data,       \* _extract_from_xlsx: the records emitted so far
    current_lvl1,    \* _extract_docx_paragraphs: tracker state
    current_lvl2,
    current_lvl3,
    para_idx,        \* paragraphs scanned so far
    structured_data, \* _extract_docx_paragraphs: the records emitted so far
    \* ---- MergedCellProcessor.unmerge_cells_and_fill_values ----
    sheet_cells,     \* the worksheet: cell.value of every cell
    merged_ranges,   \* list(sheet.merged_cells.ranges)
    cell_values,     \* the dictionary being built; None stands for a missing key
    range_no,        \* position of the loop over merged_ranges
    mpc,             \* "read" | "fill": which loop is running
    \* ---- table extraction: process_table_with_merged_cells and the table readers ----
    tfmt,            \* "docx" | "pdf": the extractor the tables belong to
    table_no,        \* tables the reader has been through so far (table_idx of the last one)
    next_table,      \* the rows of the table that is being handed over, header first
    raw_tables,      \* the tables handed to process_table_with_merged_cells so far, each
                     \* with its table_idx: <<table_idx, table_data>>
    processed_tables, \* what process_table_with_merged_cells returned for each of them
    table_records,   \* the records the table reader has emitted so far
    \* ---- ingestion runs on the servers' request-handling loops ----
    run_server,      \* the server process each run was submitted to
    rpc,             \* position of each run: "queued" | "embed" | "insert" | "upsert" |
                     \* "sleep" | "done" | "failed"
    run_n,           \* len(chunks) of each run, 0 before the chunks exist
    run_file_id,     \* file_id of insert_documents in each run, 0 before it is generated
    run_ids,         \* how many file ids each run has generated
    run_points,      \* the list `points` insert_documents built in each run
    run_attempt,     \* loop variable of the retry loop in each run
    run_applied,     \* number of client.upsert calls of each run the store applied
    loop_thread,     \* per server: the run its event loop thread is executing, 0 if none
    waiting,         \* the servers that have an unrelated request waiting for the loop
    uuid_issued,     \* how many values uuid.uuid4() has returned so far
    qdrant,          \* the points held by the collection
    \* ---- upload.upload_file, upload.upload_file_sync and FileParser.extract_text ----
    endpoint,        \* "upload" (background task) | "upload_sync"
    filename,        \* file.filename
    name_units,      \* number of pieces the file name was put together from
    file_size,       \* len(file_content), which is file.size where the attribute exists
    has_size,        \* hasattr(file, 'size')
    upc,             \* "naming" | "queued" | "process" | "rejected" | "finished"
    response,        \* what the endpoint answered: "none" | "accepted" | "400" | "500" | "success"
    parser_calls,    \* the format parsers extract_text has called
    task_error,      \* the exception the background task logged, "none" if there is none
    \* ---- VectorDatabase.search_similar ----
    scored_points,   \* the points of the collection: the score each has for the query
    score_threshold, \* argument score_threshold, in tenths
    limit,           \* argument limit
    transport,       \* "none" | "answered" | "failed": what became of client.search
    results,         \* the list search_similar returned
    search_raised,   \* the exception search_similar raised, "none" if it returned
    spc,             \* "fill" | "searched"
    \* ---- SafeKoreanPreprocessor.preprocess_text and the record loop of _process_file ----
    search_text,         \* search_text of the record
    search_words,        \* number of pieces search_text was put together from
    kiwi_available,      \* self._kiwi_available, set when the preprocessor is constructed
    kiwi_raised,         \* whether self._kiwi.analyze raised in this call
    preprocessed_search, \* what preprocess_text returned
    embed_text,          \* what the record loop appended to `chunks`
    filter_error,        \* exception that left the record loop, "none" if there is none
    fpc,                 \* "build" | "appended"
    \* ---- FileParser._extract_from_pdf: the loop over the pages ----
    pdf_pages,       \* the pages the loop has been through: what each held and did
    pdf_data,        \* structured_data of _extract_from_pdf
    has_tables,      \* has_tables of _extract_from_pdf
    pdf_returned,    \* "none" | "records" | "text" | "RuntimeError": what the extractor returned
    pdfpc,           \* "pages" | "returned"
    \* ---- FileParser._extract_from_xlsx: the loop over the sheets of a workbook ----
    wb_sheets,       \* the sheets the loop has been through, each the list of its rows
    ws_rows,         \* the rows of the sheet that comes next
    wb_cell_data,    \* cell_data of _extract_from_xlsx
    wb_returned,     \* "none" | "records" | "RuntimeError": how _extract_from_xlsx ended
    wpc,             \* "sheets" | "returned"
    \* ---- VectorDatabase._ensure_collection, set_embedding_dimension and main.lifespan ----
    coll_size,       \* vector size of the collection in the store, 0 while there is none
    coll_points,     \* number of points the collection holds
    adapter_dim,     \* self.embedding_dim of the VectorDatabase instance, 0 for None
    embedder_dim,    \* embedding_dim of the embedder of this process, 0 before it is loaded
    starts,          \* how many times the application has been started
    insert_rejected, \* whether the store has refused an upsert of this process
    vpc,             \* "down" | "embedder" | "ensured" | "up"
    \* ---- board.sync_board_attachments, sync_board_attachments_sync, _sync_attachments ----
    \* ---- and BoardSyncScheduler.sync_job                                           ----
    sync_st,         \* per request: "none" | "arrived" | "accepted" | "rejected" | "skipped" |
                     \* "running" | "done"
    sync_origin,     \* per request: "manual" | "sync" | "scheduler", "none" before it arrives
    sync_phase,      \* per request: where _sync_attachments is: "search" | "download" | "files"
    sync_files,      \* per request: the attachments the file loop has still to go through
    sync_processed,  \* per request: files_processed
    sync_errors,     \* per request: len(errors)
    sync_during,     \* per request: whether it arrived while another was accepted or running
    is_running,      \* current_sync_status["is_running"]
    sync_history,    \* sync_history
    loop_busy,       \* the request whose coroutine the event loop is executing, 0 if none
    \* ---- auth.verify_admin and the admin-only endpoints of upload.py and board.py ----
    admin_req,       \* the last request: its Authorization header and what NAVER WORKS answers
    admin_op,        \* the endpoint the last request went to, "none" before the first
    verify_result,   \* what verify_admin did: "401" | "403" | "500" raised, "False" | "True" returned
    response_status, \* the status code of the response, 0 before the first request
    admin_effect,    \* what the handler did: "none" | "file_read" | "document_deleted" | "sync_started"
    admin_store,     \* the ids of the documents in the store
    handled,         \* number of requests handled
    \* ---- ingestion: upload._process_file, board._process_and_store_file, ----
    \* ---- VectorDatabase.insert_documents                                 ----
    route,           \* "upload" | "board" | "direct" (insert_documents called by itself)
    doc,             \* the file being ingested
    store,           \* the vector store: the documents it holds
    ipc,             \* position of the run
    extracted_kind,  \* "none" | "list" | "text": what extract_text returned
    n_chunks,        \* len(chunks)
    n_embeddings,    \* len(embeddings)
    embed_calls,     \* calls of embedder.encode_batch
    file_id,         \* the id insert_documents generated, "none" before
    file_id_to_delete, \* board, step 1: the id of the stored document of the same name, "none" without one
    attempt,         \* loop variable of the retry loop
    outcomes,        \* outcome of every client.upsert call issued
    waits,           \* argument of every time.sleep call
    returned,        \* value returned by insert_documents, "none" before
    error            \* exception that ended the run, "none" if there is none

chunkVars == <<text, maxLen, overlapLen, cpc, nunits, sentences, packed, chunks, out, out2>>

extractVars == <<fmt, sheet_no, row_idx, nrows, lvl1_value, lvl2_value, lvl3_value, sheet_rows,
                 cell_data, current_lvl1, current_lvl2, current_lvl3, para_idx, structured_data>>

mergeVars == <<sheet_cells, merged_ranges, cell_values, range_no, mpc>>

tableVars == <<tfmt, table_no, next_table, raw_tables, processed_tables, table_records>>

runVars == <<run_server, rpc, run_n, run_file_id, run_ids, run_points, run_attempt, run_applied,
             loop_thread, waiting, uuid_issued, qdrant>>

uploadVars == <<endpoint, filename, name_units, file_size, has_size, upc, response, parser_calls,
                task_error>>

searchVars == <<scored_points, score_threshold, limit, transport, results, search_raised, spc>>

filterVars == <<search_text, search_words, kiwi_available, kiwi_raised, preprocessed_search,
                embed_text, filter_error, fpc>>

pdfVars == <<pdf_pages, pdf_data, has_tables, pdf_returned, pdfpc>>

sheetVars == <<wb_sheets, ws_rows, wb_cell_data, wb_returned, wpc>>

startupVars == <<coll_size, coll_points, adapter_dim, embedder_dim, starts, insert_rejected,
                 vpc>>

syncVars == <<sync_st, sync_origin, sync_phase, sync_files, sync_processed, sync_errors,
              sync_during, is_running, sync_history, loop_busy>>

adminVars == <<admin_req, admin_op, verify_result, response_status, admin_effect, admin_store,
               handled>>

ingestVars == <<route, doc, store, ipc, extracted_kind, n_chunks, n_embeddings, embed_calls,
                file_id, file_id_to_delete, attempt, outcomes, waits, returned, error>>

vars == <<sys, chunkVars, extractVars, mergeVars, tableVars, runVars, uploadVars, searchVars,
          filterVars, pdfVars, sheetVars, startupVars, syncVars, adminVars, ingestVars>>

\* the values the variables of a component hold while another component runs
ChunkIdle ==
    /\ text = <<>> /\ maxLen = 0 /\ overlapLen = 0 /\ cpc = "idle" /\ nunits = 0
    /\ sentences = <<>> /\ packed = <<>> /\ chunks = <<>> /\ out = <<>> /\ out2 = <<>>

ExtractIdle ==
    /\ fmt = "idle" /\ sheet_no = 0 /\ row_idx = 0 /\ nrows = 0
    /\ lvl1_value = <<>> /\ lvl2_value = <<>> /\ lvl3_value = <<>>
    /\ sheet_rows = <<>> /\ cell_data = <<>>
    /\ current_lvl1 = <<>> /\ current_lvl2 = <<>> /\ current_lvl3 = <<>>
    /\ para_idx = 0 /\ structured_data = <<>>

MergeIdle ==
    /\ sheet_cells = <<>> /\ merged_ranges = <<>> /\ cell_values = <<>>
    /\ range_no = 0 /\ mpc = "idle"

TableIdle ==
    /\ tfmt = "idle" /\ table_no = 0 /\ next_table = <<>> /\ raw_tables = <<>>
    /\ processed_tables = <<>> /\ table_records = <<>>

RunsIdle ==
    /\ run_server = <<>> /\ rpc = <<>> /\ run_n = <<>> /\ run_file_id = <<>> /\ run_ids = <<>>
    /\ run_points = <<>> /\ run_attempt = <<>> /\ run_applied = <<>> /\ loop_thread = <<>> /\ waiting = {}
    /\ uuid_issued = 0 /\ qdrant = {}

UploadIdle ==
    /\ endpoint = "idle" /\ filename = <<>> /\ name_units = 0 /\ file_size = 0
    /\ has_size = FALSE /\ upc = "idle" /\ response = "none" /\ parser_calls = <<>>
    /\ task_error = "none"

SearchIdle ==
    /\ scored_points = <<>> /\ score_threshold = 0 /\ limit = 0 /\ transport = "none"
    /\ results = <<>> /\ search_raised = "none" /\ spc = "idle"

FilterIdle ==
    /\ search_text = <<>> /\ search_words = 0 /\ kiwi_available = FALSE /\ kiwi_raised = FALSE
    /\ preprocessed_search = <<>> /\ embed_text = <<>> /\ filter_error = "none" /\ fpc = "idle"

PdfIdle ==
    /\ pdf_pages = <<>> /\ pdf_data = <<>> /\ has_tables = FALSE /\ pdf_returned = "none"
    /\ pdfpc = "idle"

SheetIdle ==
    /\ wb_sheets = <<>> /\ ws_rows = <<>> /\ wb_cell_data = <<>> /\ wb_returned = "none"
    /\ wpc = "idle"

StartupIdle ==
    /\ coll_size = 0 /\ coll_points = 0 /\ adapter_dim = 0 /\ embedder_dim = 0 /\ starts = 0
    /\ insert_rejected = FALSE /\ vpc = "idle"

SyncIdle ==
    /\ sync_st = <<>> /\ sync_origin = <<>> /\ sync_phase = <<>> /\ sync_files = <<>>
    /\ sync_processed = <<>> /\ sync_errors = <<>> /\ sync_during = <<>>
    /\ is_running = FALSE /\ sync_history = <<>> /\ loop_busy = 0

AdminIdle ==
    /\ admin_req = <<>> /\ admin_op = "idle" /\ verify_result = "idle" /\ response_status = 0
    /\ admin_effect = "idle" /\ admin_store = {} /\ handled = 0

IngestIdle ==
    /\ route = "idle" /\ doc = <<>> /\ store = {} /\ ipc = "idle" /\ extracted_kind = "none"
    /\ n_chunks = 0 /\ n_embeddings = 0 /\ embed_calls = 0 /\ file_id = "none"
    /\ file_id_to_delete = "none" /\ attempt = 0 /\ outcomes = <<>> /\ waits = <<>> /\ returned = "none" /\ error = "none"

(***************************************************************************)
(* Python string primitives                                                *)
(***************************************************************************)

\* str.isspace() for the characters of the model's alphabet
IsSpace(c) == c \in {" ", "\n"}

\* s[i:] with a 1-based first index i
Drop(s, i) == SubSeq(s, i, Len(s))

\* s[:n]
Take(s, n) == SubSeq(s, 1, n)

RECURSIVE LStrip(_)
LStrip(s) ==
    IF s = <<>> THEN <<>>
    ELSE IF IsSpace(Head(s)) THEN LStrip(Tail(s)) ELSE s

RECURSIVE RStrip(_)
RStrip(s) ==
    IF s = <<>> THEN <<>>
    ELSE IF IsSpace(s[Len(s)]) THEN RStrip(Take(s, Len(s) - 1)) ELSE s

\* str.strip()
Strip(s) == RStrip(LStrip(s))

\* whether pat occurs in s at 1-based position i
MatchAt(s, pat, i) ==
    /\ i + Len(pat) - 1 <= Len(s)
    /\ \A k \in 1..Len(pat) : s[i + k - 1] = pat[k]

\* `pat in s`
Contains(s, pat) == \E i \in 1..(Len(s) - Len(pat) + 1) : MatchAt(s, pat, i)

\* str.split(delimiter): pieces between the non-overlapping occurrences, left to right
RECURSIVE SplitOn(_, _, _, _)
SplitOn(s, delim, i, cur) ==
    IF i > Len(s) THEN <<cur>>
    ELSE IF MatchAt(s, delim, i)
         THEN <<cur>> \o SplitOn(s, delim, i + Len(delim), <<>>)
         ELSE SplitOn(s, delim, i + 1, Append(cur, s[i]))

StrSplit(s, delim) == SplitOn(s, delim, 1, <<>>)

\* str.split() without argument: the maximal runs of non-whitespace characters
RECURSIVE SplitWords(_, _)
SplitWords(s, cur) ==
    IF s = <<>> THEN (IF cur = <<>> THEN <<>> ELSE <<cur>>)
    ELSE IF IsSpace(Head(s))
         THEN (IF cur = <<>> THEN <<>> ELSE <<cur>>) \o SplitWords(Tail(s), <<>>)
         ELSE SplitWords(Tail(s), Append(cur, Head(s)))

Words(s) == SplitWords(s, <<>>)

\* sep.join(parts)
RECURSIVE Join(_, _)
Join(parts, sep) ==
    IF parts = <<>> THEN <<>>
    ELSE IF Len(parts) = 1 THEN parts[1]
    ELSE parts[1] \o sep \o Join(Tail(parts), sep)

\* s.rfind(' ', 0, end): the highest 0-based index below end holding a space, or -1
RFindSpace(s, end) ==
    LET idx == {i \in 0..(end - 1) : i + 1 <= Len(s) /\ s[i + 1] = " "}
    IN IF idx = {} THEN -1 ELSE CHOOSE i \in idx : \A j \in idx : j <= i

(***************************************************************************)
(* TextChunker                                                             *)
(***************************************************************************)

\* chunk_text keeps a chunk only if len(cleaned) > 10
MinChunkLen == 10

\* the ideographic full stop (U+3002) of the pattern [.!?\u3002], written in ASCII
IdeographicStop == "@"

SentenceEndings == {".", "!", "?", IdeographicStop}

\* re.sub(r'\n+', ' ', text)
RECURSIVE ReplaceNewlines(_)
ReplaceNewlines(s) ==
    IF s = <<>> THEN <<>>
    ELSE IF Head(s) = "\n"
         THEN IF Len(s) > 1 /\ s[2] = "\n"
              THEN ReplaceNewlines(Tail(s))
              ELSE <<" ">> \o ReplaceNewlines(Tail(s))
         ELSE <<Head(s)>> \o ReplaceNewlines(Tail(s))

\* self.sentence_endings.split(text) with the pattern [.!?\u3002][\s]*
RECURSIVE SkipSpaces(_, _)
SkipSpaces(s, i) == IF i <= Len(s) /\ IsSpace(s[i]) THEN SkipSpaces(s, i + 1) ELSE i

RECURSIVE EndingSplit(_, _, _)
EndingSplit(s, i, cur) ==
    IF i > Len(s) THEN <<cur>>
    ELSE IF s[i] \in SentenceEndings
         THEN <<cur>> \o EndingSplit(s, SkipSpaces(s, i + 1), <<>>)
         ELSE EndingSplit(s, i + 1, Append(cur, s[i]))

\* _find_sentence_ending: the first of '.', '!', '?', U+3002 that occurs anywhere in the text
FindSentenceEnding(original_text) ==
    IF Contains(original_text, <<".">>) THEN "."
    ELSE IF Contains(original_text, <<"!">>) THEN "!"
    ELSE IF Contains(original_text, <<"?">>) THEN "?"
    ELSE IF Contains(original_text, <<IdeographicStop>>) THEN IdeographicStop
    ELSE "."

\* a splitter that forgets to put the sentence ending back
RECURSIVE SentencesFromNoEnding(_, _, _)
SentencesFromNoEnding(pieces, i, ending) ==
    IF i > Len(pieces) THEN <<>>
    ELSE LET sentence == Strip(pieces[i])
         IN IF sentence = <<>> THEN SentencesFromNoEnding(pieces, i + 1, ending)
            ELSE <<sentence>> \o SentencesFromNoEnding(pieces, i + 1, ending)

\* the loop of _split_sentences_regex over the pieces of the split
RECURSIVE SentencesFrom(_, _, _)
SentencesFrom(pieces, i, ending) ==
    IF i > Len(pieces) THEN <<>>
    ELSE LET sentence == Strip(pieces[i])
         IN IF sentence = <<>> THEN SentencesFrom(pieces, i + 1, ending)
            ELSE <<(IF i < Len(pieces) THEN Append(sentence, ending) ELSE sentence)>>
                 \o SentencesFrom(pieces, i + 1, ending)

\* _split_sentences_regex (the splitter used when kss is not installed)
SplitSentencesRegex(t) ==
    LET t1 == ReplaceNewlines(t)
    IN SentencesFrom(EndingSplit(t1, 1, <<>>), 1, FindSentenceEnding(t1))

\* the en dash (U+2013) of the fourth delimiter, written in ASCII
EnDash == "~"

\* the delimiters _split_long_sentence tries, in order
Delimiters == << <<",", " ">>, <<";", " ">>, <<" ", "-", " ">>, <<" ", EnDash, " ">> >>

\* the packing loop of _split_long_sentence for one delimiter
RECURSIVE PackParts(_, _, _, _, _)
PackParts(parts, i, delim, current, max) ==
    IF i > Len(parts) THEN (IF current # <<>> THEN <<current>> ELSE <<>>)
    ELSE LET potential == current \o (IF current # <<>> THEN delim ELSE <<>>) \o parts[i]
         IN IF Len(potential) <= max
            THEN PackParts(parts, i + 1, delim, potential, max)
            ELSE (IF current # <<>> THEN <<current>> ELSE <<>>)
                 \o PackParts(parts, i + 1, delim, parts[i], max)

\* a forced split that always breaks at the length limit, inside a word or not
RECURSIVE ForceSplitAtLimit(_, _)
ForceSplitAtLimit(sentence, max) ==
    IF Len(sentence) > max
    THEN <<Take(sentence, max)>> \o ForceSplitAtLimit(Strip(Drop(sentence, max + 1)), max)
    ELSE IF sentence # <<>> THEN <<sentence>> ELSE <<>>

\* the forced split loop of _split_long_sentence
RECURSIVE ForceSplit(_, _)
ForceSplit(sentence, max) ==
    IF Len(sentence) > max
    THEN LET found == RFindSpace(sentence, max)
             split_pos == IF found = -1 THEN max ELSE found
         IN <<Take(sentence, split_pos)>>
            \o ForceSplit(Strip(Drop(sentence, split_pos + 1)), max)
    ELSE IF sentence # <<>> THEN <<sentence>> ELSE <<>>

RECURSIVE TryDelimiters(_, _, _)
TryDelimiters(sentence, d, max) ==
    IF d > Len(Delimiters) THEN ForceSplit(sentence, max)
    ELSE IF Contains(sentence, Delimiters[d])
         THEN LET cs == PackParts(StrSplit(sentence, Delimiters[d]), 1, Delimiters[d], <<>>, max)
              IN IF Len(cs) > 1 THEN cs ELSE TryDelimiters(sentence, d + 1, max)
         ELSE TryDelimiters(sentence, d + 1, max)

\* _split_long_sentence
SplitLongSentence(sentence, max) ==
    IF Len(sentence) <= max THEN <<sentence>> ELSE TryDelimiters(sentence, 1, max)

\* a packing loop whose length bound is exclusive: a sentence as long as the limit
\* is split into pieces shorter than the limit
RECURSIVE PackSentencesExclusive(_, _, _, _)
PackSentencesExclusive(ss, i, current_chunk, max) ==
    IF i > Len(ss) THEN (IF current_chunk # <<>> THEN <<current_chunk>> ELSE <<>>)
    ELSE LET sentence == ss[i]
             potential_chunk ==
                 current_chunk \o (IF current_chunk # <<>> THEN <<" ">> ELSE <<>>) \o sentence
         IN IF Len(potential_chunk) < max
            THEN PackSentencesExclusive(ss, i + 1, potential_chunk, max)
            ELSE (IF current_chunk # <<>> THEN <<current_chunk>> ELSE <<>>)
                 \o (IF Len(sentence) < max
                     THEN PackSentencesExclusive(ss, i + 1, sentence, max)
                     ELSE LET split_chunks == TryDelimiters(sentence, 1, max - 1)
                          IN IF split_chunks = <<>>
                             THEN PackSentencesExclusive(ss, i + 1, <<>>, max)
                             ELSE Take(split_chunks, Len(split_chunks) - 1)
                                  \o PackSentencesExclusive(ss, i + 1,
                                                            split_chunks[Len(split_chunks)], max))

\* the packing loop of _create_chunks (before the overlaps are added)
RECURSIVE PackSentences(_, _, _, _)
PackSentences(ss, i, current_chunk, max) ==
    IF i > Len(ss) THEN (IF current_chunk # <<>> THEN <<current_chunk>> ELSE <<>>)
    ELSE LET sentence == ss[i]
             potential_chunk ==
                 current_chunk \o (IF current_chunk # <<>> THEN <<" ">> ELSE <<>>) \o sentence
         IN IF Len(potential_chunk) <= max
            THEN PackSentences(ss, i + 1, potential_chunk, max)
            ELSE (IF current_chunk # <<>> THEN <<current_chunk>> ELSE <<>>)
                 \o (IF Len(sentence) <= max
                     THEN PackSentences(ss, i + 1, sentence, max)
                     ELSE LET split_chunks == SplitLongSentence(sentence, max)
                          IN IF split_chunks = <<>>
                             THEN PackSentences(ss, i + 1, <<>>, max)
                             ELSE Take(split_chunks, Len(split_chunks) - 1)
                                  \o PackSentences(ss, i + 1, split_chunks[Len(split_chunks)], max))

\* the word loop of _add_overlaps: trailing words of prev_words taken while they fit
RECURSIVE OverlapWords(_, _, _, _)
OverlapWords(prev_words, k, overlap_length, overlap) ==
    IF k < 1 THEN <<>>
    ELSE IF overlap_length + Len(prev_words[k]) + 1 <= overlap
         THEN Append(OverlapWords(prev_words, k - 1, overlap_length + Len(prev_words[k]) + 1, overlap),
                     prev_words[k])
         ELSE <<>>

\* an overlap cut by characters instead of whole words
OverlapChunkPartial(prev_chunk, current_chunk, overlap) ==
    IF Len(prev_chunk) > overlap
    THEN Drop(prev_chunk, Len(prev_chunk) - overlap + 1) \o <<" ">> \o current_chunk
    ELSE current_chunk

\* the chunk _add_overlaps builds from prev_chunk and current_chunk
OverlapChunk(prev_chunk, current_chunk, overlap) ==
    IF Len(prev_chunk) > overlap
    THEN LET prev_words == Words(prev_chunk)
             overlap_words == OverlapWords(prev_words, Len(prev_words), 0, overlap)
         IN IF overlap_words # <<>>
            THEN Join(overlap_words, <<" ">>) \o <<" ">> \o current_chunk
            ELSE current_chunk
    ELSE current_chunk

\* _add_overlaps
AddOverlaps(cs, overlap) ==
    IF Len(cs) <= 1 THEN cs
    ELSE [i \in 1..Len(cs) |-> IF i = 1 THEN cs[1] ELSE OverlapChunk(cs[i - 1], cs[i], overlap)]

\* _create_chunks
CreateChunks(ss, max, overlap) ==
    LET cs == PackSentences(ss, 1, <<>>, max)
    IN IF overlap > 0 /\ Len(cs) > 1 THEN AddOverlaps(cs, overlap) ELSE cs

\* step 3 of chunk_text: strip every chunk and keep those longer than the minimum
RECURSIVE CleanChunks(_)
CleanChunks(cs) ==
    IF cs = <<>> THEN <<>>
    ELSE LET cleaned == Strip(Head(cs))
         IN (IF cleaned # <<>> /\ Len(cleaned) > MinChunkLen THEN <<cleaned>> ELSE <<>>)
            \o CleanChunks(Tail(cs))

\* chunk_text
ChunkText(t, max, overlap) ==
    IF t = <<>> \/ Strip(t) = <<>> THEN <<>>
    ELSE LET ss == SplitSentencesRegex(t)
         IN IF ss = <<>> THEN <<>> ELSE CleanChunks(CreateChunks(ss, max, overlap))

(***************************************************************************)
(* Inputs of the chunker: texts built from units "word + separator"        *)
(***************************************************************************)

MaxUnits == 4

W6 == <<"a", "a", "a", "a", "a", "a">>
W3 == <<"b", "b", "b">>

InputWords == {W6, W3}
InputSeparators == {<<" ">>, <<".", " ">>, <<",", " ">>, <<"!", "\n">>}

\* (max_chunk_length, overlap_length) pairs a TextChunker is constructed with
ChunkConfigs == {<<12, 0>>, <<12, 5>>, <<24, 5>>}

InitChunk ==
    /\ sys = "chunk"
    /\ \E cfg \in ChunkConfigs : maxLen = cfg[1] /\ overlapLen = cfg[2]
    /\ text = <<>>
    /\ cpc = "input"
    /\ nunits = 0
    /\ sentences = <<>>
    /\ packed = <<>>
    /\ chunks = <<>>
    /\ out = <<>>
    /\ out2 = <<>>
    /\ ExtractIdle
    /\ MergeIdle
    /\ TableIdle
    /\ RunsIdle
    /\ UploadIdle
    /\ SearchIdle
    /\ IngestIdle
    /\ FilterIdle
    /\ PdfIdle
    /\ SheetIdle
    /\ StartupIdle
    /\ SyncIdle
    /\ AdminIdle

\* the caller extends the text it is going to pass to chunk_text
AppendUnit ==
    /\ sys = "chunk"
    /\ cpc = "input"
    /\ nunits < MaxUnits
    /\ IF text = <<>> THEN TRUE ELSE IsSpace(text[Len(text)])
    /\ \E w \in InputWords, s \in InputSeparators \cup {<<>>} : text' = text \o w \o s
    /\ nunits' = nunits + 1
    /\ UNCHANGED <<sys, adminVars, syncVars, startupVars, sheetVars, pdfVars, filterVars,
                   searchVars, tableVars, runVars, uploadVars, maxLen, overlapLen, cpc,
                   sentences, packed, chunks, out, out2, extractVars, mergeVars, ingestVars>>

\* chunker.chunk_text(text)
DoChunkText ==
    /\ sys = "chunk"
    /\ cpc = "input"
    /\ cpc' = "chunked"
    /\ LET ss == IF Strip(text) = <<>> THEN <<>> ELSE SplitSentencesRegex(text)
       IN /\ sentences' = ss
          /\ packed' = PackSentences(ss, 1, <<>>, maxLen)
          /\ chunks' = CreateChunks(ss, maxLen, overlapLen)
    /\ out' = ChunkText(text, maxLen, overlapLen)
    /\ UNCHANGED <<sys, adminVars, syncVars, startupVars, sheetVars, pdfVars, filterVars,
                   searchVars, tableVars, runVars, uploadVars, text, maxLen, overlapLen, nunits,
                   out2, extractVars, mergeVars, ingestVars>>

\* chunker.chunk_text(' '.join(out)) with the same chunker
DoRechunk ==
    /\ sys = "chunk"
    /\ cpc = "chunked"
    /\ cpc' = "rechunked"
    /\ out2' = ChunkText(Join(out, <<" ">>), maxLen, overlapLen)
    /\ UNCHANGED <<sys, adminVars, syncVars, startupVars, sheetVars, pdfVars, filterVars,
                   searchVars, tableVars, runVars, uploadVars, text, maxLen, overlapLen, nunits,
                   sentences, packed, chunks, out, extractVars, mergeVars, ingestVars>>

NextChunk == AppendUnit \/ DoChunkText \/ DoRechunk

SpecChunk == InitChunk /\ [][NextChunk]_vars

(***************************************************************************)
(* FileParser._extract_from_xlsx: the scan of the table rows of the sheets *)
(***************************************************************************)

\* Python's None
None == <<"None">>

\* re.sub(r"\s+", " ", text)
RECURSIVE CollapseWhitespace(_)
CollapseWhitespace(s) ==
    IF s = <<>> THEN <<>>
    ELSE IF IsSpace(Head(s))
         THEN IF Len(s) > 1 /\ IsSpace(s[2])
              THEN CollapseWhitespace(Tail(s))
              ELSE <<" ">> \o CollapseWhitespace(Tail(s))
         ELSE <<Head(s)>> \o CollapseWhitespace(Tail(s))

\* _clean_hierarchy_value
CleanHierarchyValue(t) ==
    IF t = <<>> THEN <<>> ELSE Strip(CollapseWhitespace(ReplaceNewlines(t)))

\* `x or ""`
OrEmpty(x) == IF x = None THEN <<>> ELSE x

\* the fixed column mapping
lvl1_col_idx == 2
lvl2_col_idx == 3
lvl3_col_idx == 4
detail_col_idx == 5
remarks_col_idx == 6

\* the label a hierarchy cell yields: the empty string when the column is missing, the
\* cell is None or it is blank
CellLabel(row_values, col) ==
    IF Len(row_values) >= col /\ row_values[col] # None
    THEN CleanHierarchyValue(Strip(row_values[col]))
    ELSE <<>>

\* a tracker that forgets to keep the label for the rows that follow
KeepLevelNever(stored, row_values, col) == stored

\* the value of lvlN_value after the row: the row's own label if it has one
KeepLevel(stored, row_values, col) ==
    IF CellLabel(row_values, col) # <<>> THEN CellLabel(row_values, col) ELSE stored

\* the value of current_lvlN for the row
CurrentLevel(stored, row_values, col) ==
    IF CellLabel(row_values, col) # <<>> THEN CellLabel(row_values, col) ELSE stored

\* the stripped text of a detail or remarks cell
CellText(row_values, col) ==
    IF Len(row_values) >= col /\ row_values[col] # None THEN Strip(row_values[col]) ELSE <<>>

\* " | ".join(parts) over the non-empty parts
RECURSIVE NonEmpty(_)
NonEmpty(parts) ==
    IF parts = <<>> THEN <<>>
    ELSE (IF Head(parts) # <<>> THEN <<Head(parts)>> ELSE <<>>) \o NonEmpty(Tail(parts))

Bar == <<" ", "|", " ">>

\* lvl4_value of a row
Lvl4Value(row_values) ==
    Join(NonEmpty(<<CellText(row_values, detail_col_idx), CellText(row_values, remarks_col_idx)>>), Bar)

\* row_context of a row
RowContext(row_values) ==
    Join(NonEmpty([c \in 1..Len(row_values) |->
                      IF row_values[c] # None THEN Strip(row_values[c]) ELSE <<>>]), Bar)

\* the records one row emits: one per cell that is not None and not blank
RECURSIVE RowRecords(_, _, _, _, _)
RowRecords(row_values, col, sheet, row, labels) ==
    IF col > Len(row_values) THEN <<>>
    ELSE (IF row_values[col] # None /\ Strip(row_values[col]) # <<>>
          THEN << [sheet |-> sheet, row |-> row, col |-> col,
                   value |-> Strip(row_values[col]),
                   row_context |-> RowContext(row_values),
                   lvl1 |-> CleanHierarchyValue(OrEmpty(labels[1])),
                   lvl2 |-> CleanHierarchyValue(OrEmpty(labels[2])),
                   lvl3 |-> CleanHierarchyValue(OrEmpty(labels[3])),
                   lvl4 |-> Lvl4Value(row_values)] >>
          ELSE <<>>)
         \o RowRecords(row_values, col + 1, sheet, row, labels)

\* an extractor that rewrites the lvl1 of the records it has already emitted
AppendCellDataBackfill(data, new) ==
    IF new = <<>> THEN data
    ELSE [i \in 1..Len(data) |-> [data[i] EXCEPT !.lvl1 = new[1].lvl1]] \o new

\* cell_data.append(cell_info) for the records of one row
AppendCellData(data, new) == data \o new

\* workbook.sheetnames
SheetNames == <<"S1", "S2">>

MaxRows == 3

\* the cells a table row can hold in the label, detail and remarks columns
Lvl1Cells == {None, <<" ">>, <<"A">>, <<"B", "\n", "B">>}
Lvl2Cells == {None, <<"X">>}
Lvl3Cells == {None, <<"Z">>}
DetailCells == {<<"d">>}

InitExtract ==
    /\ sys = "extract"
    /\ fmt \in {"xlsx", "docx"}
    /\ sheet_no = 1
    /\ row_idx = 1
    /\ nrows = 0
    /\ lvl1_value = None /\ lvl2_value = None /\ lvl3_value = None
    /\ sheet_rows = <<>>
    /\ cell_data = <<>>
    /\ current_lvl1 = <<>> /\ current_lvl2 = <<>> /\ current_lvl3 = <<>>
    /\ para_idx = 0
    /\ structured_data = <<>>
    /\ ChunkIdle
    /\ MergeIdle
    /\ TableIdle
    /\ RunsIdle
    /\ UploadIdle
    /\ SearchIdle
    /\ IngestIdle
    /\ FilterIdle
    /\ PdfIdle
    /\ SheetIdle
    /\ StartupIdle
    /\ SyncIdle
    /\ AdminIdle

\* one iteration of `for row_idx in range(table_start + 1, table_end + 1)`
XlsxRow ==
    /\ sys = "extract" /\ fmt = "xlsx"
    /\ sheet_no <= Len(SheetNames)
    /\ nrows < MaxRows
    /\ \E c2 \in Lvl1Cells, c3 \in Lvl2Cells, c4 \in Lvl3Cells, c5 \in DetailCells :
          LET row_values == <<None, c2, c3, c4, c5, None>>
              labels == <<CurrentLevel(lvl1_value, row_values, lvl1_col_idx),
                          CurrentLevel(lvl2_value, row_values, lvl2_col_idx),
                          CurrentLevel(lvl3_value, row_values, lvl3_col_idx)>>
              recs == RowRecords(row_values, 1, SheetNames[sheet_no], row_idx + 1, labels)
          IN /\ lvl1_value' = KeepLevel(lvl1_value, row_values, lvl1_col_idx)
             /\ lvl2_value' = KeepLevel(lvl2_value, row_values, lvl2_col_idx)
             /\ lvl3_value' = KeepLevel(lvl3_value, row_values, lvl3_col_idx)
             /\ cell_data' = AppendCellData(cell_data, recs)
             /\ sheet_rows' = Append(sheet_rows,
                                     [sheet |-> SheetNames[sheet_no], row |-> row_idx + 1,
                                      cells |-> row_values])
    /\ row_idx' = row_idx + 1
    /\ nrows' = nrows + 1
    /\ UNCHANGED <<sys, adminVars, syncVars, startupVars, sheetVars, pdfVars, filterVars,
                   searchVars, tableVars, runVars, uploadVars, chunkVars, mergeVars, ingestVars,
                   fmt, sheet_no, current_lvl1, current_lvl2, current_lvl3, para_idx,
                   structured_data>>

\* the next iteration of `for sheet_name in workbook.sheetnames`: the tracker starts anew
XlsxNextSheet ==
    /\ sys = "extract" /\ fmt = "xlsx"
    /\ sheet_no < Len(SheetNames)
    /\ sheet_no' = sheet_no + 1
    /\ row_idx' = 1
    /\ lvl1_value' = None /\ lvl2_value' = None /\ lvl3_value' = None
    /\ UNCHANGED <<sys, adminVars, syncVars, startupVars, sheetVars, pdfVars, filterVars,
                   searchVars, tableVars, runVars, uploadVars, chunkVars, mergeVars, ingestVars,
                   fmt, nrows, sheet_rows, cell_data, current_lvl1, current_lvl2, current_lvl3,
                   para_idx, structured_data>>

(***************************************************************************)
(* FileParser._extract_docx_paragraphs: the scan of the paragraphs         *)
(***************************************************************************)

\* the Hangul syllables U+C81C and U+C870 of the article pattern, the circled
\* numerals U+2460..U+2469 and another Hangul syllable, written in ASCII
Je == "J"
Jo == "O"
CircledNumerals == {"#"}
HangulSyllables == {Je, Jo, "G"}
Digits == {"1", "2"}

\* the result of re.match when the pattern does not match
NoMatch == <<"NoMatch">>

\* the rest of s after the longest run of digits at its start
RECURSIVE SkipDigits(_)
SkipDigits(s) ==
    IF s # <<>> /\ Head(s) \in Digits THEN SkipDigits(Tail(s)) ELSE s

\* the longest prefix of s without the character c
RECURSIVE PrefixBefore(_, _)
PrefixBefore(s, c) ==
    IF s = <<>> \/ Head(s) = c THEN <<>> ELSE <<Head(s)>> \o PrefixBefore(Tail(s), c)

\* the bracket group of re.match(r'<Je>(\d+)<Jo>\s*\(([^)]+)\)', text), or NoMatch
ArticleMatch(t) ==
    IF t = <<>> \/ Head(t) # Je THEN NoMatch
    ELSE LET a == Tail(t)
             d == SkipDigits(a)
         IN IF Len(d) = Len(a) \/ d = <<>> \/ Head(d) # Jo THEN NoMatch
            ELSE LET b == LStrip(Tail(d))
                 IN IF b = <<>> \/ Head(b) # "(" THEN NoMatch
                    ELSE LET g == PrefixBefore(Tail(b), ")")
                         IN IF g = <<>> \/ Len(g) = Len(Tail(b)) THEN NoMatch ELSE g

\* re.match(r'\d+\)', text)
NumberedMatch(t) ==
    LET d == SkipDigits(t) IN Len(d) < Len(t) /\ d # <<>> /\ Head(d) = ")"

\* re.match(r'[<Hangul>]\)', text)
HangulMatch(t) == Len(t) >= 2 /\ t[1] \in HangulSyllables /\ t[2] = ")"

\* _extract_docx_structure: <<lvl1, lvl2, lvl3, lvl4>> of a stripped paragraph text
ExtractDocxStructure(t) ==
    IF ArticleMatch(t) # NoMatch
    THEN <<Strip(ArticleMatch(t)), <<>>, <<>>, <<>> >>
    ELSE IF t # <<>> /\ Head(t) \in CircledNumerals THEN << <<>>, t, <<>>, <<>> >>
    ELSE IF NumberedMatch(t) THEN << <<>>, <<>>, t, <<>> >>
    ELSE IF HangulMatch(t) THEN << <<>>, <<>>, t, <<>> >>
    ELSE << <<>>, <<>>, <<>>, t >>

\* _extract_bracket_content_safe
ExtractBracketContentSafe(t) ==
    IF t = <<>> THEN <<>>
    ELSE IF ArticleMatch(t) # NoMatch THEN Strip(ArticleMatch(t))
    ELSE t

\* a tracker that sets a level without clearing the deeper ones
UpdateTrackerNoClear(cur, lv) ==
    IF lv[1] # <<>> THEN <<lv[1], cur[2], cur[3]>>
    ELSE IF lv[2] # <<>> THEN <<cur[1], lv[2], cur[3]>>
    ELSE IF lv[3] # <<>> THEN <<cur[1], cur[2], lv[3]>>
    ELSE cur

\* the tracker after a paragraph with the levels lv: <<current_lvl1, current_lvl2, current_lvl3>>
UpdateTracker(cur, lv) ==
    IF lv[1] # <<>> THEN <<lv[1], <<>>, <<>> >>
    ELSE IF lv[2] # <<>> THEN <<cur[1], lv[2], <<>> >>
    ELSE IF lv[3] # <<>> THEN <<cur[1], cur[2], lv[3]>>
    ELSE cur

\* structured_data.append({...})
AppendStructuredData(data, rec) == Append(data, rec)

MaxParagraphs == 4

\* paragraph.text of the paragraphs a document can hold
ParagraphTexts ==
    { <<Je, "1", Jo, "(", "x", ")">>,
      <<Je, "2", Jo, " ", "(", "y", ")", "y">>,
      <<Je, "1", Jo, "(", " ", ")">>,
      <<"#", "x">>,
      <<"1", ")", "x">>,
      <<"G", ")", "y">>,
      <<"x", "\n">>,
      <<" ">> }

\* one iteration of `for para_idx, paragraph in enumerate(paragraphs)`
DocxParagraph ==
    /\ sys = "extract" /\ fmt = "docx"
    /\ para_idx < MaxParagraphs
    /\ \E ptext \in ParagraphTexts :
          LET t == Strip(ptext)
              st == ExtractDocxStructure(t)
              lv == [k \in 1..4 |-> ExtractBracketContentSafe(st[k])]
              cur == UpdateTracker(<<current_lvl1, current_lvl2, current_lvl3>>, lv)
              lvl4 == IF lv[4] = <<>> THEN t ELSE lv[4]
          IN IF t = <<>>
             THEN UNCHANGED <<current_lvl1, current_lvl2, current_lvl3, structured_data>>
             ELSE /\ current_lvl1' = cur[1]
                  /\ current_lvl2' = cur[2]
                  /\ current_lvl3' = cur[3]
                  /\ structured_data' =
                        AppendStructuredData(structured_data,
                            [row |-> para_idx + 1, value |-> t, row_context |-> t,
                             lvl1 |-> cur[1], lvl2 |-> cur[2], lvl3 |-> cur[3], lvl4 |-> lvl4])
    /\ para_idx' = para_idx + 1
    /\ UNCHANGED <<sys, adminVars, syncVars, startupVars, sheetVars, pdfVars, filterVars,
                   searchVars, tableVars, runVars, uploadVars, chunkVars, mergeVars, ingestVars,
                   fmt, sheet_no, row_idx, nrows, lvl1_value, lvl2_value, lvl3_value,
                   sheet_rows, cell_data>>

NextExtract == XlsxRow \/ XlsxNextSheet \/ DocxParagraph

SpecExtract == InitExtract /\ [][NextExtract]_vars

(***************************************************************************)
(* MergedCellProcessor.unmerge_cells_and_fill_values                       *)
(***************************************************************************)

\* the rows and columns of the worksheet
GridRows == {1, 2}
GridCols == {1, 2}

GridCells == GridRows \X GridCols

\* cell.value of a cell
CellContents == {None, <<>>, <<"A">>, <<"B">>}

\* the merge ranges a worksheet of this size can hold: rectangles of two cells or more
MergeRanges ==
    {r \in [min_row : GridRows, max_row : GridRows, min_col : GridCols, max_col : GridCols] :
        /\ r.min_row <= r.max_row
        /\ r.min_col <= r.max_col
        /\ (r.min_row < r.max_row \/ r.min_col < r.max_col)}

MaxRanges == 2

\* the cells of a range
RangeCells(r) == (r.min_row..r.max_row) \X (r.min_col..r.max_col)

\* the top-left cell of a range
TopLeft(r) == <<r.min_row, r.min_col>>

\* the lists of at most n different ranges
RangeLists(n) ==
    UNION {{l \in [1..k -> MergeRanges] : \A i, j \in 1..k : i # j => l[i] # l[j]} : k \in 0..n}

\* the worksheets the spreadsheet library hands over: in every merge range only the
\* top-left cell carries a value, the other cells of the range read as None
Worksheets(ranges) ==
    {g \in [GridCells -> CellContents] :
        \A i \in 1..Len(ranges) :
            \A c \in RangeCells(ranges[i]) \ {TopLeft(ranges[i])} : g[c] = None}

\* a fill that reaches the first row of the range only
FillFirstRowOnly(values, r, v) ==
    [c \in GridCells |-> IF c \in RangeCells(r) /\ c[1] = r.min_row THEN v ELSE values[c]]

\* the two nested loops that copy the value to every cell of the range
FillRange(values, r, v) ==
    [c \in GridCells |-> IF c \in RangeCells(r) THEN v ELSE values[c]]

InitMerge ==
    /\ sys = "merge"
    /\ merged_ranges \in RangeLists(MaxRanges)
    /\ sheet_cells \in Worksheets(merged_ranges)
    /\ cell_values = [c \in GridCells |-> None]
    /\ range_no = 0
    /\ mpc = "read"
    /\ ChunkIdle
    /\ ExtractIdle
    /\ TableIdle
    /\ RunsIdle
    /\ UploadIdle
    /\ SearchIdle
    /\ IngestIdle
    /\ FilterIdle
    /\ PdfIdle
    /\ SheetIdle
    /\ StartupIdle
    /\ SyncIdle
    /\ AdminIdle

\* the loop over sheet.iter_rows(): every value that is not None is stored
ReadAllCells ==
    /\ sys = "merge" /\ mpc = "read"
    /\ cell_values' = [c \in GridCells |-> sheet_cells[c]]
    /\ mpc' = "fill"
    /\ range_no' = 1
    /\ UNCHANGED <<sys, adminVars, syncVars, startupVars, sheetVars, pdfVars, filterVars,
                   searchVars, tableVars, runVars, uploadVars, chunkVars, extractVars,
                   ingestVars, sheet_cells, merged_ranges>>

\* one iteration of `for merged_range in merged_ranges`
FillMergedRange ==
    /\ sys = "merge" /\ mpc = "fill"
    /\ range_no <= Len(merged_ranges)
    /\ LET merged_range == merged_ranges[range_no]
           merged_value == sheet_cells[TopLeft(merged_range)]
       IN cell_values' = IF merged_value # None
                         THEN FillRange(cell_values, merged_range, merged_value)
                         ELSE cell_values
    /\ range_no' = range_no + 1
    /\ UNCHANGED <<sys, adminVars, syncVars, startupVars, sheetVars, pdfVars, filterVars,
                   searchVars, tableVars, runVars, uploadVars, chunkVars, extractVars,
                   ingestVars, sheet_cells, merged_ranges, mpc>>

NextMerge == ReadAllCells \/ FillMergedRange

SpecMerge == InitMerge /\ [][NextMerge]_vars

(***************************************************************************)
(* Ingestion: upload._process_file, board._process_and_store_file and      *)
(* VectorDatabase.insert_documents                                         *)
(***************************************************************************)

\* VectorDatabase.__init__: self.max_retries
max_retries == 3

\* the shortest extracted text the routers accept: len(extracted_data.strip()) < 10 fails
MinTextLen == 10

MaxRecords == 2

\* the name of the uploaded file and the id uuid4 gives its document
FileName == "doc"
NewFileId == "new"

\* a document the store may hold before the run
StoredBefore ==
    {[file_id |-> "old", file_name |-> FileName, points |-> 1],
     [file_id |-> "other", file_name |-> "other", points |-> 1]}

\* the texts a file can hold
IngestTexts ==
    { <<>>,
      <<" ", "\n">>,
      W6,
      W6 \o <<" ">> \o W3,
      W6 \o <<" ">> \o W6,
      W6 \o <<" ">> \o W6 \o <<".", " ">> \o W3 \o <<" ">> \o W6 \o <<" ">> \o W3 \o <<".", " ">> }

\* the files: a spreadsheet of n records, a word-processor file of n records or,
\* without records, of some text, and a text file
IngestDocs ==
    {[ext |-> ".xlsx", n |-> n, text |-> <<>>] : n \in 0..MaxRecords}
    \cup {[ext |-> ".docx", n |-> n, text |-> <<>>] : n \in 1..MaxRecords}
    \cup {[ext |-> ".docx", n |-> 0, text |-> t] : t \in IngestTexts}
    \cup {[ext |-> ".txt", n |-> 0, text |-> t] : t \in IngestTexts}

\* the chunker of get_chunker(), its lengths scaled down
IngestChunkConfig == <<24, 5>>

\* preprocess_text: cleaning, morphological analysis by the external analyser and
\* stop-word removal; the result is some text that is not longer, possibly empty
PreprocessOutcomes(t) == {<<>>} \cup {u \in IngestTexts : Len(u) <= Len(t)}

\* a check that never finds the lists of different length
LengthsDifferNever(nc, ne) == FALSE

\* len(embeddings) != len(chunks)
LengthsDiffer(nc, ne) == ne # nc

\* a check that never finds the chunk list empty
NoChunksNever(nc) == FALSE

\* `not chunks`
NoChunks(nc) == nc = 0

\* a retry that always waits the same time
WaitTimeConstant(a) == 1

\* wait_time = 1 * (attempt + 1)
WaitTime(a) == 1 * (a + 1)

\* the outcomes of client.upsert: success; a transport error with the request lost
\* or with the request applied and the response lost; any other exception
TransientOutcomes == {"transient_lost", "transient_applied"}

InitIngest ==
    /\ sys = "ingest"
    /\ route \in {"upload", "board", "direct"}
    /\ store \in SUBSET StoredBefore
    /\ IF route = "direct"
       THEN /\ doc = <<>>
            /\ ipc = "insert"
            /\ n_chunks \in 0..MaxRecords
            /\ n_embeddings \in 0..MaxRecords
       ELSE /\ doc \in IngestDocs
            /\ ipc = IF route = "board" THEN "start" ELSE "extract"
            /\ n_chunks = 0
            /\ n_embeddings = 0
    /\ extracted_kind = "none"
    /\ embed_calls = 0
    /\ file_id = "none"
    /\ file_id_to_delete = "none"
    /\ attempt = 0
    /\ outcomes = <<>>
    /\ waits = <<>>
    /\ returned = "none"
    /\ error = "none"
    /\ ChunkIdle
    /\ ExtractIdle
    /\ MergeIdle
    /\ TableIdle
    /\ RunsIdle
    /\ UploadIdle
    /\ SearchIdle
    /\ FilterIdle
    /\ PdfIdle
    /\ SheetIdle
    /\ StartupIdle
    /\ SyncIdle
    /\ AdminIdle

\* a deletion that empties the collection
DeleteAllPoints(stored, id) == {}

\* the collection after client.delete with a filter on file_id
DeletePoints(stored, id) == {d \in stored : d.file_id # id}

\* board, step 1: the first stored document of the same file name is deleted, before
\* the extension check and the extraction; delete_document reports a failure by
\* returning False
BoardDeleteExisting ==
    /\ sys = "ingest" /\ route = "board" /\ ipc = "start"
    /\ IF \E d \in store : d.file_name = FileName
       THEN LET existing_file == CHOOSE d \in store : d.file_name = FileName
            IN /\ file_id_to_delete' = existing_file.file_id
               /\ \E delete_success \in BOOLEAN :
                      store' = IF delete_success
                               THEN DeletePoints(store, existing_file.file_id)
                               ELSE store
       ELSE UNCHANGED <<store, file_id_to_delete>>
    /\ ipc' = "extract"
    /\ UNCHANGED <<sys, adminVars, syncVars, startupVars, sheetVars, pdfVars, filterVars,
                   searchVars, tableVars, runVars, uploadVars, chunkVars, extractVars,
                   mergeVars, route, doc, extracted_kind, n_chunks, n_embeddings, embed_calls,
                   file_id, attempt, outcomes, waits, returned, error>>

\* FileParser.extract_text: records, text, or RuntimeError (a spreadsheet without
\* records, a file without text, or a file that cannot be read)
ExtractData ==
    /\ sys = "ingest" /\ ipc = "extract"
    /\ \E unreadable \in BOOLEAN :
          LET empty == \/ doc.ext = ".xlsx" /\ doc.n = 0
                       \/ doc.n = 0 /\ Strip(doc.text) = <<>>
          IN IF unreadable \/ empty
             THEN /\ ipc' = "failed"
                  /\ error' = "RuntimeError:extract_text"
                  /\ UNCHANGED extracted_kind
             ELSE /\ ipc' = "extracted"
                  /\ extracted_kind' = IF doc.n > 0 THEN "list" ELSE "text"
                  /\ UNCHANGED error
    /\ UNCHANGED <<sys, adminVars, syncVars, startupVars, sheetVars, pdfVars, filterVars,
                   searchVars, tableVars, runVars, uploadVars, chunkVars, extractVars,
                   mergeVars, route, doc, store, n_chunks, n_embeddings, embed_calls, file_id,
                   attempt, outcomes, waits, returned, file_id_to_delete>>

\* from the extracted data to the chunk list: one chunk per record, or the chunks of
\* the preprocessed text; ValueError for no records, a short text or no chunks
BuildChunks ==
    /\ sys = "ingest" /\ ipc = "extracted"
    /\ IF extracted_kind = "list"
       THEN IF doc.n = 0
            THEN /\ ipc' = "failed" /\ error' = "ValueError:no_records" /\ UNCHANGED n_chunks
            ELSE /\ n_chunks' = doc.n
                 /\ IF NoChunks(doc.n)
                    THEN ipc' = "failed" /\ error' = "ValueError:no_chunks"
                    ELSE ipc' = "embed" /\ UNCHANGED error
       ELSE IF Len(Strip(doc.text)) < MinTextLen
            THEN /\ ipc' = "failed" /\ error' = "ValueError:short_text" /\ UNCHANGED n_chunks
            ELSE \E pre \in PreprocessOutcomes(doc.text) :
                    LET preprocessed_text == IF pre = <<>> THEN doc.text ELSE pre
                        n == Len(ChunkText(preprocessed_text, IngestChunkConfig[1],
                                           IngestChunkConfig[2]))
                    IN /\ n_chunks' = n
                       /\ IF NoChunks(n)
                          THEN ipc' = "failed" /\ error' = "ValueError:no_chunks"
                          ELSE ipc' = "embed" /\ UNCHANGED error
    /\ UNCHANGED <<sys, adminVars, syncVars, startupVars, sheetVars, pdfVars, filterVars,
                   searchVars, tableVars, runVars, uploadVars, chunkVars, extractVars,
                   mergeVars, route, doc, store, extracted_kind, n_embeddings, embed_calls,
                   file_id, attempt, outcomes, waits, returned, file_id_to_delete>>

\* embedder.encode_batch(chunks) and the comparison of the two lengths; the number
\* of vectors comes from the embedding model
EncodeBatch ==
    /\ sys = "ingest" /\ ipc = "embed"
    /\ embed_calls' = embed_calls + 1
    /\ \E raised \in BOOLEAN, k \in 0..(MaxRecords + 1) :
          IF raised
          THEN /\ ipc' = "failed" /\ error' = "Exception:encode_batch"
               /\ UNCHANGED n_embeddings
          ELSE /\ n_embeddings' = k
               /\ IF LengthsDiffer(n_chunks, k)
                  THEN ipc' = "failed" /\ error' = "RuntimeError:count_mismatch"
                  ELSE ipc' = "insert" /\ UNCHANGED error
    /\ UNCHANGED <<sys, adminVars, syncVars, startupVars, sheetVars, pdfVars, filterVars,
                   searchVars, tableVars, runVars, uploadVars, chunkVars, extractVars,
                   mergeVars, route, doc, store, extracted_kind, n_chunks, file_id, attempt,
                   outcomes, waits, returned, file_id_to_delete>>

\* insert_documents up to the retry loop: the length check, the file id and the points
InsertDocuments ==
    /\ sys = "ingest" /\ ipc = "insert"
    /\ IF LengthsDiffer(n_chunks, n_embeddings)
       THEN /\ ipc' = "failed" /\ error' = "ValueError:count_mismatch"
            /\ UNCHANGED <<file_id, attempt>>
       ELSE /\ file_id' = NewFileId
            /\ attempt' = 0
            /\ ipc' = "upsert"
            /\ UNCHANGED error
    /\ UNCHANGED <<sys, adminVars, syncVars, startupVars, sheetVars, pdfVars, filterVars,
                   searchVars, tableVars, runVars, uploadVars, chunkVars, extractVars,
                   mergeVars, route, doc, store, extracted_kind, n_chunks, n_embeddings,
                   embed_calls, outcomes, waits, returned, file_id_to_delete>>

\* the points of the run are in the store
Upserted == (store \ {d \in store : d.file_id = file_id})
            \cup {[file_id |-> file_id, file_name |-> FileName, points |-> n_chunks]}

\* an iteration of the retry loop in which client.upsert succeeds
UpsertOk ==
    /\ sys = "ingest" /\ ipc = "upsert"
    /\ attempt < max_retries
    /\ outcomes' = Append(outcomes, "ok")
    /\ store' = Upserted
    /\ returned' = file_id
    /\ ipc' = "done"
    /\ UNCHANGED <<sys, adminVars, syncVars, startupVars, sheetVars, pdfVars, filterVars,
                   searchVars, tableVars, runVars, uploadVars, chunkVars, extractVars,
                   mergeVars, route, doc, extracted_kind, n_chunks, n_embeddings, embed_calls,
                   file_id, attempt, waits, error, file_id_to_delete>>

\* an iteration in which client.upsert raises ResponseHandlingException
UpsertTransient ==
    /\ sys = "ingest" /\ ipc = "upsert"
    /\ attempt < max_retries
    /\ \E o \in TransientOutcomes :
          /\ outcomes' = Append(outcomes, o)
          /\ store' = IF o = "transient_applied" THEN Upserted ELSE store
    /\ IF attempt < max_retries - 1
       THEN /\ waits' = Append(waits, WaitTime(attempt))
            /\ attempt' = attempt + 1
            /\ UNCHANGED <<ipc, error>>
       ELSE /\ ipc' = "failed"
            /\ error' = "RuntimeError:max_retries"
            /\ UNCHANGED <<waits, attempt>>
    /\ UNCHANGED <<sys, adminVars, syncVars, startupVars, sheetVars, pdfVars, filterVars,
                   searchVars, tableVars, runVars, uploadVars, chunkVars, extractVars,
                   mergeVars, route, doc, extracted_kind, n_chunks, n_embeddings, embed_calls,
                   file_id, returned, file_id_to_delete>>

\* an iteration in which client.upsert raises any other exception: it propagates
UpsertOtherError ==
    /\ sys = "ingest" /\ ipc = "upsert"
    /\ attempt < max_retries
    /\ outcomes' = Append(outcomes, "other_error")
    /\ ipc' = "failed"
    /\ error' = "Exception:upsert"
    /\ UNCHANGED <<sys, adminVars, syncVars, startupVars, sheetVars, pdfVars, filterVars,
                   searchVars, tableVars, runVars, uploadVars, chunkVars, extractVars,
                   mergeVars, route, doc, store, extracted_kind, n_chunks, n_embeddings,
                   embed_calls, file_id, attempt, waits, returned, file_id_to_delete>>

NextIngest ==
    \/ BoardDeleteExisting
    \/ ExtractData
    \/ BuildChunks
    \/ EncodeBatch
    \/ InsertDocuments
    \/ UpsertOk
    \/ UpsertTransient
    \/ UpsertOtherError

SpecIngest == InitIngest /\ [][NextIngest]_vars

(***************************************************************************)
(* MergedCellProcessor.process_table_with_merged_cells and the table       *)
(* readers FileParser._extract_docx_tables and FileParser._process_pdf_table *)
(***************************************************************************)

\* `cell_value and cell_value.strip()`: the cell is not None, not empty and not blank
HasText(cell) == cell # None /\ Strip(cell) # <<>>

\* a search that looks at the row directly above only
FindPreviousValueAdjacent(data_rows, current_row_idx, col_idx) ==
    IF current_row_idx <= 1 THEN <<>>
    ELSE LET prev_row == data_rows[current_row_idx - 1]
         IN IF col_idx <= Len(prev_row) /\ HasText(prev_row[col_idx])
            THEN Strip(prev_row[col_idx])
            ELSE <<>>

\* _find_previous_value(data_rows, current_row_idx, col_idx), with 1-based indices
RECURSIVE FindPreviousValue(_, _, _)
FindPreviousValue(data_rows, current_row_idx, col_idx) ==
    IF current_row_idx <= 1 THEN <<>>
    ELSE LET prev_row == data_rows[current_row_idx - 1]
         IN IF col_idx <= Len(prev_row) /\ HasText(prev_row[col_idx])
            THEN Strip(prev_row[col_idx])
            ELSE FindPreviousValue(data_rows, current_row_idx - 1, col_idx)

\* process_table_with_merged_cells(table_data)
ProcessTableWithMergedCells(table_data) ==
    IF Len(table_data) < 2 THEN table_data
    ELSE LET data_rows == Tail(table_data)
         IN <<Head(table_data)>> \o
            [r \in 1..Len(data_rows) |->
                [c \in 1..Len(data_rows[r]) |->
                    IF HasText(data_rows[r][c]) THEN Strip(data_rows[r][c])
                    ELSE FindPreviousValue(data_rows, r, c)]]

\* stand-ins for the header keywords, one character for each syllable
Lvl1Keywords == {<<"g", "b">>, <<"b", "r">>, <<"k", "t", "o", "i">>, <<"g", "b", "1">>}
Lvl2Keywords == {<<"g", "b", "2">>, <<"s", "u">>, <<"h", "w">>}
Lvl3Keywords == {<<"g", "b", "3">>, <<"s", "u">>, <<"a", "m">>}
Lvl4Keywords == {<<"n", "y">>, <<"s", "u", "n", "y">>, <<"e", "q">>}

\* str.lower() for the characters of the model's alphabet
LowerChar(c) ==
    CASE c = "A" -> "a" [] c = "B" -> "b" [] c = "X" -> "x" [] c = "H" -> "h"
      [] c = "P" -> "p" [] c = "D" -> "d" [] c = "F" -> "f" [] OTHER -> c

Lower(s) == [i \in 1..Len(s) |-> LowerChar(s[i])]

\* any(keyword in header.lower() for keyword in keywords)
KeywordIn(header, keywords) == \E k \in keywords : Contains(Lower(header), k)

\* _extract_bracket_content of _extract_hierarchical_structure
ExtractBracketContent(t) ==
    IF t = <<>> THEN <<>>
    ELSE IF ArticleMatch(t) # NoMatch THEN Strip(ArticleMatch(t))
    ELSE t

\* _extract_hierarchical_structure(headers, row): <<lvl1, lvl2, lvl3, lvl4>>
ExtractHierarchicalStructure(headers, row) ==
    LET detect == Len(headers) >= 4 /\ Len(row) >= 4
        Found(i, keywords) ==
            IF detect /\ headers[i] # <<>> /\ KeywordIn(headers[i], keywords) /\ row[i] # <<>>
            THEN ExtractBracketContent(row[i])
            ELSE <<>>
        Level(i, keywords) ==
            IF Found(i, keywords) = <<>> /\ Len(row) >= i
            THEN (IF row[i] # <<>> THEN ExtractBracketContent(row[i]) ELSE <<>>)
            ELSE Found(i, keywords)
    IN <<Level(1, Lvl1Keywords), Level(2, Lvl2Keywords), Level(3, Lvl3Keywords),
         Level(4, Lvl4Keywords)>>

\* the records of one table row: one for every pair of zip(headers, row) with a value
RECURSIVE TableRowRecords(_, _, _, _, _, _)
TableRowRecords(headers, row, col, table_idx, row_no, lv) ==
    IF col > Len(headers) \/ col > Len(row) THEN <<>>
    ELSE (IF row[col] # <<>>
          THEN << [page |-> 1, table |-> table_idx, row |-> row_no, col |-> col,
                   header |-> headers[col], value |-> row[col],
                   lvl1 |-> lv[1], lvl2 |-> lv[2], lvl3 |-> lv[3], lvl4 |-> lv[4],
                   row_context |-> Join(NonEmpty(row), Bar)] >>
          ELSE <<>>)
         \o TableRowRecords(headers, row, col + 1, table_idx, row_no, lv)

\* `str(cell).strip() if cell else ""`
CleanCell(cell) == IF cell # None /\ cell # <<>> THEN Strip(cell) ELSE <<>>

CleanRow(row) == [c \in 1..Len(row) |-> CleanCell(row[c])]

\* the loop over the data rows of _extract_docx_tables, from row row_no on
RECURSIVE DocxTableRecords(_, _, _)
DocxTableRecords(table, row_no, table_idx) ==
    IF row_no + 1 > Len(table) THEN <<>>
    ELSE LET row_data == table[row_no + 1]
         IN (IF row_data = <<>> THEN <<>>
             ELSE TableRowRecords(table[1], row_data, 1, table_idx, row_no,
                                  ExtractHierarchicalStructure(table[1], row_data)))
            \o DocxTableRecords(table, row_no + 1, table_idx)

\* the loop over the data rows of _process_pdf_table, from row row_no on
RECURSIVE PdfTableRecords(_, _, _)
PdfTableRecords(table, row_no, table_idx) ==
    IF row_no + 1 > Len(table) THEN <<>>
    ELSE LET row == table[row_no + 1]
             clean_headers == CleanRow(table[1])
             clean_row == CleanRow(row)
         IN (IF row = <<>> \/ \A c \in 1..Len(row) : row[c] \in {None, <<>>} THEN <<>>
             ELSE TableRowRecords(clean_headers, clean_row, 1, table_idx, row_no,
                                  ExtractHierarchicalStructure(clean_headers, clean_row)))
            \o PdfTableRecords(table, row_no + 1, table_idx)

\* _process_pdf_table(table, page_num, table_idx)
ProcessPdfTable(table, table_idx) ==
    IF Len(table) < 2 THEN <<>> ELSE PdfTableRecords(table, 1, table_idx)

\* the table_data _extract_docx_tables builds: cell.text.strip() of every cell
DocxTableData(table) ==
    [r \in 1..Len(table) |-> [c \in 1..Len(table[r]) |-> Strip(OrEmpty(table[r][c]))]]

\* the tables of the documents: a header row and at most MaxDataRows data rows
MaxDataRows == 3

\* the values of table_idx
TableIndices == {1, 2}

\* headers with a keyword in the first and in the fourth column
TableHeader == << <<"g", "b">>, <<"h">>, <<>>, <<"n", "y">> >>

\* the data rows: a full row, a row that leaves the first and the fourth cell to the row
\* above, a row with a padded fourth cell, and a row of one cell; the third cell is blank
TableDataRows ==
    { << <<"A">>, <<"X">>, <<" ">>, <<"d">> >>,
      << None, <<"X">>, <<" ">>, None >>,
      << <<"A">>, <<"X">>, <<" ">>, <<" ", "e">> >>,
      << <<"B">> >> }

InitTable ==
    /\ sys = "table"
    /\ tfmt \in {"docx", "pdf"}
    /\ table_no = 0
    /\ next_table = <<>>
    /\ raw_tables = <<>>
    /\ processed_tables = <<>>
    /\ table_records = <<>>
    /\ ChunkIdle
    /\ ExtractIdle
    /\ MergeIdle
    /\ RunsIdle
    /\ UploadIdle
    /\ SearchIdle
    /\ IngestIdle
    /\ FilterIdle
    /\ PdfIdle
    /\ SheetIdle
    /\ StartupIdle
    /\ SyncIdle
    /\ AdminIdle

\* the document holds one more row for the table that comes next
TableAddRow ==
    /\ sys = "table"
    /\ table_no + 1 \in TableIndices
    /\ Len(next_table) < 1 + MaxDataRows
    /\ IF next_table = <<>>
       THEN next_table' = <<TableHeader>>
       ELSE \E row \in TableDataRows : next_table' = Append(next_table, row)
    /\ UNCHANGED <<sys, adminVars, syncVars, startupVars, sheetVars, pdfVars, filterVars,
                   searchVars, chunkVars, extractVars, mergeVars, ingestVars, runVars,
                   uploadVars, tfmt, table_no, raw_tables, processed_tables, table_records>>

\* one round of the loop over doc.tables in _extract_docx_tables
DocxTable ==
    /\ sys = "table" /\ tfmt = "docx"
    /\ table_no + 1 \in TableIndices
    /\ table_no' = table_no + 1
    /\ next_table' = <<>>
    /\ IF next_table = <<>>
       THEN UNCHANGED <<raw_tables, processed_tables, table_records>>
       ELSE LET table_data == DocxTableData(next_table)
                processed_table_data == ProcessTableWithMergedCells(table_data)
            IN /\ raw_tables' = Append(raw_tables, <<table_no + 1, table_data>>)
               /\ processed_tables' =
                      Append(processed_tables, <<table_no + 1, processed_table_data>>)
               /\ table_records' =
                      table_records \o DocxTableRecords(processed_table_data, 1, table_no + 1)
    /\ UNCHANGED <<sys, adminVars, syncVars, startupVars, sheetVars, pdfVars, filterVars,
                   searchVars, chunkVars, extractVars, mergeVars, ingestVars, runVars,
                   uploadVars, tfmt>>

\* one round of the loop over page.extract_tables() in _extract_from_pdf
PdfTable ==
    /\ sys = "table" /\ tfmt = "pdf"
    /\ table_no + 1 \in TableIndices
    /\ table_no' = table_no + 1
    /\ next_table' = <<>>
    /\ IF Len(next_table) > 1
       THEN LET processed_table == ProcessTableWithMergedCells(next_table)
            IN /\ raw_tables' = Append(raw_tables, <<table_no + 1, next_table>>)
               /\ processed_tables' = Append(processed_tables, <<table_no + 1, processed_table>>)
               /\ table_records' =
                      table_records \o ProcessPdfTable(processed_table, table_no + 1)
       ELSE UNCHANGED <<raw_tables, processed_tables, table_records>>
    /\ UNCHANGED <<sys, adminVars, syncVars, startupVars, sheetVars, pdfVars, filterVars,
                   searchVars, chunkVars, extractVars, mergeVars, ingestVars, runVars,
                   uploadVars, tfmt>>

NextTable == TableAddRow \/ DocxTable \/ PdfTable

SpecTable == InitTable /\ [][NextTable]_vars

(***************************************************************************)
(* Ingestion runs on the request-handling loops: upload.upload_file,       *)
(* upload._process_file from the embedding on, and                         *)
(* VectorDatabase.insert_documents, for two runs and two server processes  *)
(* that share one collection                                               *)
(***************************************************************************)

Runs == {1, 2}

Servers == {1, 2}

\* len(chunks) is at most MaxChunksPerRun
MaxChunksPerRun == 2

\* a generator that starts again from the same value in every call of insert_documents
Uuid4Repeating(issued, k) == k

\* the k-th value uuid.uuid4() returns after `issued` values have been returned: a value
\* that was never returned before
Uuid4(issued, k) == issued + k

\* the list `points` of insert_documents for n chunks: chunk_index i is enumerate's index
BuildPoints(issued, n) ==
    [j \in 1..n |-> [id |-> Uuid4(issued, 1 + j), file_id |-> Uuid4(issued, 1), chunk_index |-> j - 1]]

\* a retry loop that builds the points again, with new ids, for every attempt
AttemptPointsRegenerated(points, a) ==
    [j \in 1..Len(points) |-> [points[j] EXCEPT !.id = @ + 100 * a]]

\* the points attempt `a` of the retry loop hands to client.upsert: the list built before
\* the loop, the same in every attempt
AttemptPoints(points, a) == points

\* the collection after client.upsert(points): a point replaces the point with its id
UpsertPoints(collection, points) ==
    LET ids == {points[j].id : j \in 1..Len(points)}
    IN {p \in collection : p.id \notin ids} \cup {points[j] : j \in 1..Len(points)}

InitRuns ==
    /\ sys = "runs"
    /\ run_server \in [Runs -> Servers]
    /\ rpc = [r \in Runs |-> "queued"]
    /\ run_n = [r \in Runs |-> 0]
    /\ run_file_id = [r \in Runs |-> 0]
    /\ run_ids = [r \in Runs |-> 0]
    /\ run_points = [r \in Runs |-> <<>>]
    /\ run_attempt = [r \in Runs |-> 0]
    /\ run_applied = [r \in Runs |-> 0]
    /\ loop_thread = [w \in Servers |-> 0]
    /\ waiting = {}
    /\ uuid_issued = 0
    /\ qdrant = {}
    /\ ChunkIdle
    /\ ExtractIdle
    /\ MergeIdle
    /\ TableIdle
    /\ UploadIdle
    /\ SearchIdle
    /\ IngestIdle
    /\ FilterIdle
    /\ PdfIdle
    /\ SheetIdle
    /\ StartupIdle
    /\ SyncIdle
    /\ AdminIdle

\* the event loop thread of the run's server leaves the run: the coroutine has ended
ReleaseLoop(r) == loop_thread' = [loop_thread EXCEPT ![run_server[r]] = 0]

\* a request that has nothing to do with the runs reaches a server
RequestArrives ==
    /\ sys = "runs"
    /\ \E w \in Servers : w \notin waiting /\ waiting' = waiting \cup {w}
    /\ UNCHANGED <<sys, adminVars, syncVars, startupVars, sheetVars, pdfVars, filterVars,
                   searchVars, chunkVars, extractVars, mergeVars, tableVars, ingestVars,
                   uploadVars, run_server, rpc, run_n, run_file_id, run_ids, run_points,
                   run_attempt, run_applied, loop_thread, uuid_issued, qdrant>>

\* the event loop of a server handles the waiting request: it needs the loop thread
ServeRequest ==
    /\ sys = "runs"
    /\ \E w \in waiting : loop_thread[w] = 0 /\ waiting' = waiting \ {w}
    /\ UNCHANGED <<sys, adminVars, syncVars, startupVars, sheetVars, pdfVars, filterVars,
                   searchVars, chunkVars, extractVars, mergeVars, tableVars, ingestVars,
                   uploadVars, run_server, rpc, run_n, run_file_id, run_ids, run_points,
                   run_attempt, run_applied, loop_thread, uuid_issued, qdrant>>

\* the event loop starts the coroutine _process_file of a run (awaited by upload_file_sync
\* or by the background task) and runs it up to the call of embedder.encode_batch; none
\* of its awaits suspends, so the thread stays in the coroutine
StartRun(r) ==
    /\ sys = "runs"
    /\ rpc[r] = "queued"
    /\ loop_thread[run_server[r]] = 0
    /\ \E n \in 0..MaxChunksPerRun :
           /\ run_n' = [run_n EXCEPT ![r] = n]
           /\ IF n = 0
              THEN /\ rpc' = [rpc EXCEPT ![r] = "failed"]
                   /\ UNCHANGED loop_thread
              ELSE /\ rpc' = [rpc EXCEPT ![r] = "embed"]
                   /\ loop_thread' = [loop_thread EXCEPT ![run_server[r]] = r]
    /\ UNCHANGED <<sys, adminVars, syncVars, startupVars, sheetVars, pdfVars, filterVars,
                   searchVars, chunkVars, extractVars, mergeVars, tableVars, ingestVars,
                   uploadVars, run_server, run_file_id, run_ids, run_points, run_attempt, run_applied,
                   waiting, uuid_issued, qdrant>>

\* embedder.encode_batch(chunks) returns to _process_file, or raises
EncodeBatchReturns(r) ==
    /\ sys = "runs"
    /\ rpc[r] = "embed"
    /\ loop_thread[run_server[r]] = r
    /\ \E ok \in BOOLEAN :
           IF ok
           THEN rpc' = [rpc EXCEPT ![r] = "insert"] /\ UNCHANGED loop_thread
           ELSE rpc' = [rpc EXCEPT ![r] = "failed"] /\ ReleaseLoop(r)
    /\ UNCHANGED <<sys, adminVars, syncVars, startupVars, sheetVars, pdfVars, filterVars,
                   searchVars, chunkVars, extractVars, mergeVars, tableVars, ingestVars,
                   uploadVars, run_server, run_n, run_file_id, run_ids, run_points, run_attempt, run_applied,
                   waiting, uuid_issued, qdrant>>

\* insert_documents up to the first client.upsert: file_id, the points, attempt 0
BuildRunPoints(r) ==
    /\ sys = "runs"
    /\ rpc[r] = "insert"
    /\ loop_thread[run_server[r]] = r
    /\ run_file_id' = [run_file_id EXCEPT ![r] = Uuid4(uuid_issued, 1)]
    /\ run_ids' = [run_ids EXCEPT ![r] = @ + 1]
    /\ run_points' = [run_points EXCEPT ![r] = BuildPoints(uuid_issued, run_n[r])]
    /\ uuid_issued' = uuid_issued + 1 + run_n[r]
    /\ run_attempt' = [run_attempt EXCEPT ![r] = 0]
    /\ rpc' = [rpc EXCEPT ![r] = "upsert"]
    /\ UNCHANGED <<sys, adminVars, syncVars, startupVars, sheetVars, pdfVars, filterVars,
                   searchVars, chunkVars, extractVars, mergeVars, tableVars, ingestVars,
                   uploadVars, run_server, run_n, run_applied, loop_thread, waiting, qdrant>>

\* client.upsert returns: insert_documents returns file_id and _process_file its result
RunUpsertOk(r) ==
    /\ sys = "runs"
    /\ rpc[r] = "upsert"
    /\ loop_thread[run_server[r]] = r
    /\ qdrant' = UpsertPoints(qdrant, AttemptPoints(run_points[r], run_attempt[r]))
    /\ run_applied' = [run_applied EXCEPT ![r] = @ + 1]
    /\ rpc' = [rpc EXCEPT ![r] = "done"]
    /\ ReleaseLoop(r)
    /\ UNCHANGED <<sys, adminVars, syncVars, startupVars, sheetVars, pdfVars, filterVars,
                   searchVars, chunkVars, extractVars, mergeVars, tableVars, ingestVars,
                   uploadVars, run_server, run_n, run_file_id, run_ids, run_points, run_attempt,
                   waiting, uuid_issued>>

\* client.upsert raises ResponseHandlingException, whether or not the store applied the
\* points: time.sleep is entered, or RuntimeError is raised after the last attempt
RunUpsertTransient(r) ==
    /\ sys = "runs"
    /\ rpc[r] = "upsert"
    /\ loop_thread[run_server[r]] = r
    /\ \E applied \in BOOLEAN :
           IF applied
           THEN /\ qdrant' = UpsertPoints(qdrant, AttemptPoints(run_points[r], run_attempt[r]))
                /\ run_applied' = [run_applied EXCEPT ![r] = @ + 1]
           ELSE UNCHANGED <<qdrant, run_applied>>
    /\ IF run_attempt[r] < max_retries - 1
       THEN rpc' = [rpc EXCEPT ![r] = "sleep"] /\ UNCHANGED loop_thread
       ELSE rpc' = [rpc EXCEPT ![r] = "failed"] /\ ReleaseLoop(r)
    /\ UNCHANGED <<sys, adminVars, syncVars, startupVars, sheetVars, pdfVars, filterVars,
                   searchVars, chunkVars, extractVars, mergeVars, tableVars, ingestVars,
                   uploadVars, run_server, run_n, run_file_id, run_ids, run_points, run_attempt,
                   waiting, uuid_issued>>

\* time.sleep(wait_time) returns and the loop goes to the next attempt
RunSleepReturns(r) ==
    /\ sys = "runs"
    /\ rpc[r] = "sleep"
    /\ loop_thread[run_server[r]] = r
    /\ run_attempt' = [run_attempt EXCEPT ![r] = @ + 1]
    /\ rpc' = [rpc EXCEPT ![r] = "upsert"]
    /\ UNCHANGED <<sys, adminVars, syncVars, startupVars, sheetVars, pdfVars, filterVars,
                   searchVars, chunkVars, extractVars, mergeVars, tableVars, ingestVars,
                   uploadVars, run_server, run_n, run_file_id, run_ids, run_points,
                   run_applied, loop_thread, waiting, uuid_issued, qdrant>>

\* client.upsert raises another exception, which insert_documents does not catch
RunUpsertOtherError(r) ==
    /\ sys = "runs"
    /\ rpc[r] = "upsert"
    /\ loop_thread[run_server[r]] = r
    /\ rpc' = [rpc EXCEPT ![r] = "failed"]
    /\ ReleaseLoop(r)
    /\ UNCHANGED <<sys, adminVars, syncVars, startupVars, sheetVars, pdfVars, filterVars,
                   searchVars, chunkVars, extractVars, mergeVars, tableVars, ingestVars,
                   uploadVars, run_server, run_n, run_file_id, run_ids, run_points, run_attempt, run_applied,
                   waiting, uuid_issued, qdrant>>

NextRuns ==
    \/ RequestArrives
    \/ ServeRequest
    \/ \E r \in Runs : StartRun(r)
    \/ \E r \in Runs : EncodeBatchReturns(r)
    \/ \E r \in Runs : BuildRunPoints(r)
    \/ \E r \in Runs : RunUpsertOk(r)
    \/ \E r \in Runs : RunUpsertTransient(r)
    \/ \E r \in Runs : RunSleepReturns(r)
    \/ \E r \in Runs : RunUpsertOtherError(r)

SpecRuns == InitRuns /\ [][NextRuns]_vars

(***************************************************************************)
(* The checks on an uploaded file: upload._validate_file in upload_file    *)
(* and upload_file_sync, and FileParser.extract_text in _process_file      *)
(***************************************************************************)

\* FileParser.SUPPORTED_EXTENSIONS
SUPPORTED_EXTENSIONS ==
    {<<".", "p", "d", "f">>, <<".", "d", "o", "c", "x">>, <<".", "x", "l", "s", "x">>,
     <<".", "t", "x", "t">>}

\* FileParser.MAX_FILE_SIZE
MAX_FILE_SIZE == 10 * 1024 * 1024

\* the last element of a list
Last(parts) == parts[Len(parts)]

\* "." + filename.lower().split('.')[-1]
SplitExtension(name) == <<".">> \o Last(StrSplit(Lower(name), <<".">>))

\* name.rfind('.'), as a 0-based index, -1 if there is no dot
RFindDot(name) ==
    LET idx == {i \in 0..(Len(name) - 1) : name[i + 1] = "."}
    IN IF idx = {} THEN -1 ELSE CHOOSE i \in idx : \A j \in idx : j <= i

\* Path(filename).suffix.lower() for a name without directory part
PathSuffix(name) ==
    LET i == RFindDot(name)
    IN IF 0 < i /\ i < Len(name) - 1 THEN Lower(Drop(name, i + 1)) ELSE <<>>

\* _validate_file: the ValueError it raises, "none" if it returns
ValidationError(name, size, sized) ==
    IF name = <<>> THEN "no_filename"
    ELSE IF SplitExtension(name) \notin SUPPORTED_EXTENSIONS THEN "unsupported"
    ELSE IF sized /\ size > MAX_FILE_SIZE THEN "too_large"
    ELSE "none"

\* the ValueError extract_text raises before it calls a parser, "none" if it calls one
ExtractTextError(name, size) ==
    IF size > MAX_FILE_SIZE THEN "too_large"
    ELSE IF PathSuffix(name) \notin SUPPORTED_EXTENSIONS THEN "unsupported"
    ELSE "none"

\* file names are put together from at most MaxNameUnits pieces
MaxNameUnits == 3

NameUnits == {<<"a">>, <<".">>, <<"p", "d", "f">>, <<"P", "D", "F">>, <<"e", "x", "e">>}

FileSizes == {1, MAX_FILE_SIZE, MAX_FILE_SIZE + 1}

\* what becomes of a run after the parser was called
PipelineOutcomes == {"ok", "ValueError", "RuntimeError"}

InitUpload ==
    /\ sys = "upload"
    /\ endpoint \in {"upload", "upload_sync"}
    /\ filename = <<>>
    /\ name_units = 0
    /\ file_size \in FileSizes
    /\ has_size \in BOOLEAN
    /\ upc = "naming"
    /\ response = "none"
    /\ parser_calls = <<>>
    /\ task_error = "none"
    /\ ChunkIdle
    /\ ExtractIdle
    /\ MergeIdle
    /\ TableIdle
    /\ RunsIdle
    /\ SearchIdle
    /\ IngestIdle
    /\ FilterIdle
    /\ PdfIdle
    /\ SheetIdle
    /\ StartupIdle
    /\ SyncIdle
    /\ AdminIdle

\* the client names the file
AppendNameUnit ==
    /\ sys = "upload" /\ upc = "naming"
    /\ name_units < MaxNameUnits
    /\ \E u \in NameUnits : filename' = filename \o u
    /\ name_units' = name_units + 1
    /\ UNCHANGED <<sys, adminVars, syncVars, startupVars, sheetVars, pdfVars, filterVars,
                   searchVars, chunkVars, extractVars, mergeVars, tableVars, runVars,
                   ingestVars, endpoint, file_size, has_size, upc, response, parser_calls,
                   task_error>>

\* upload_file: validation, then the task is queued and the request is answered;
\* upload_file_sync: validation, then _process_file is awaited
ValidateFile ==
    /\ sys = "upload" /\ upc = "naming"
    /\ IF ValidationError(filename, file_size, has_size) # "none"
       THEN upc' = "rejected" /\ response' = "400"
       ELSE IF endpoint = "upload"
            THEN upc' = "queued" /\ response' = "accepted"
            ELSE upc' = "process" /\ UNCHANGED response
    /\ UNCHANGED <<sys, adminVars, syncVars, startupVars, sheetVars, pdfVars, filterVars,
                   searchVars, chunkVars, extractVars, mergeVars, tableVars, runVars,
                   ingestVars, endpoint, filename, name_units, file_size, has_size,
                   parser_calls, task_error>>

\* _process_file, in the background task or awaited by upload_file_sync: extract_text
\* checks the file and calls the parser of the suffix; the rest of the run follows
ProcessFile ==
    /\ sys = "upload" /\ upc \in {"queued", "process"}
    /\ upc' = "finished"
    /\ \E outcome \in PipelineOutcomes :
           LET rejected == ExtractTextError(filename, file_size) # "none"
               raised == IF rejected THEN "ValueError"
                         ELSE IF outcome = "ok" THEN "none" ELSE outcome
           IN /\ parser_calls' = IF rejected THEN parser_calls
                                 ELSE Append(parser_calls, PathSuffix(filename))
              /\ IF endpoint = "upload"
                 THEN task_error' = raised /\ UNCHANGED response
                 ELSE /\ response' = CASE raised = "none" -> "success"
                                       [] raised = "ValueError" -> "400"
                                       [] OTHER -> "500"
                      /\ UNCHANGED task_error
    /\ UNCHANGED <<sys, adminVars, syncVars, startupVars, sheetVars, pdfVars, filterVars,
                   searchVars, chunkVars, extractVars, mergeVars, tableVars, runVars,
                   ingestVars, endpoint, filename, name_units, file_size, has_size>>

NextUpload == AppendNameUnit \/ ValidateFile \/ ProcessFile

SpecUpload == InitUpload /\ [][NextUpload]_vars

(***************************************************************************)
(* VectorDatabase.search_similar                                           *)
(***************************************************************************)

\* the collection holds at most MaxPoints points
MaxPoints == 3

\* scores, in tenths
Scores == {3, 7, 9}

Thresholds == {5, 7}

Limits == {1, 2}

\* the positions of the points that score at least the threshold
Hits(points, threshold) == {i \in 1..Len(points) : points[i] >= threshold}

\* the hits in the order of the store's answer: best score first, at most n of them
RECURSIVE BestFirst(_, _, _)
BestFirst(points, hits, n) ==
    IF hits = {} \/ n = 0 THEN <<>>
    ELSE LET best == CHOOSE i \in hits :
                         \A j \in hits : points[j] < points[i] \/ (points[j] = points[i] /\ i <= j)
         IN <<best>> \o BestFirst(points, hits \ {best}, n - 1)

\* client.search(query_vector, limit, score_threshold) when the store answers
ClientSearch(points, n, threshold) == BestFirst(points, Hits(points, threshold), n)

\* the list of results search_similar builds from the store's answer
FormatResults(points, search_result) ==
    [k \in 1..Len(search_result) |-> [point |-> search_result[k], score |-> points[search_result[k]]]]

InitSearch ==
    /\ sys = "search"
    /\ scored_points = <<>>
    /\ score_threshold = 0
    /\ limit = 0
    /\ transport = "none"
    /\ results = <<>>
    /\ search_raised = "none"
    /\ spc = "fill"
    /\ ChunkIdle
    /\ ExtractIdle
    /\ MergeIdle
    /\ TableIdle
    /\ RunsIdle
    /\ UploadIdle
    /\ IngestIdle
    /\ FilterIdle
    /\ PdfIdle
    /\ SheetIdle
    /\ StartupIdle
    /\ SyncIdle
    /\ AdminIdle

\* the collection holds one more point
AddPoint ==
    /\ sys = "search" /\ spc = "fill"
    /\ Len(scored_points) < MaxPoints
    /\ \E score \in Scores : scored_points' = Append(scored_points, score)
    /\ UNCHANGED <<sys, adminVars, syncVars, startupVars, sheetVars, pdfVars, filterVars,
                   chunkVars, extractVars, mergeVars, tableVars, runVars, uploadVars,
                   ingestVars, score_threshold, limit, transport, results, search_raised, spc>>

\* search_similar(query_embedding, limit, score_threshold): every exception of the
\* try block, a failure of client.search included, ends in `return []`
SearchSimilar ==
    /\ sys = "search" /\ spc = "fill"
    /\ spc' = "searched"
    /\ \E n \in Limits, threshold \in Thresholds, answered \in BOOLEAN :
           /\ limit' = n
           /\ score_threshold' = threshold
           /\ transport' = IF answered THEN "answered" ELSE "failed"
           /\ results' = IF answered
                         THEN FormatResults(scored_points, ClientSearch(scored_points, n, threshold))
                         ELSE <<>>
    /\ search_raised' = "none"
    /\ UNCHANGED <<sys, adminVars, syncVars, startupVars, sheetVars, pdfVars, filterVars,
                   chunkVars, extractVars, mergeVars, tableVars, runVars, uploadVars,
                   ingestVars, scored_points>>

NextSearch == AddPoint \/ SearchSimilar

SpecSearch == InitSearch /\ [][NextSearch]_vars

(***************************************************************************)
(* SafeKoreanPreprocessor.preprocess_text and its use on the search text   *)
(* of a record (upload._process_file)                                      *)
(***************************************************************************)

\* the Hangul characters of the model's alphabet ("U", "E": the syllables of a stop word)
KoreanChars == HangulSyllables \cup {"U", "E"}

\* self.stopwords: a stop word of two syllables and one of a single syllable
StopWords == {<<"U", "E">>, <<"G">>}

\* the characters the second substitution of _clean_text keeps
CleanKeeps(c) ==
    \/ c \in KoreanChars \cup Digits \cup {"a", "b"}
    \/ IsSpace(c)
    \/ c \in {".", ",", "!", "?", ";", ":", "-"}

\* _clean_text: other characters become a space, runs of whitespace one space, strip
CleanText(s) ==
    Strip(CollapseWhitespace([i \in 1..Len(s) |-> IF CleanKeeps(s[i]) THEN s[i] ELSE " "]))

\* str.isdigit()
IsDigit(w) == w # <<>> /\ \A i \in 1..Len(w) : w[i] \in Digits

\* _contains_korean
ContainsKorean(w) == \E i \in 1..Len(w) : w[i] \in KoreanChars

\* _basic_analyze: the words of two or more characters that are not numbers and
\* hold a Hangul character
BasicAnalyze(s) ==
    SelectSeq(Words(s), LAMBDA w : Len(w) >= 2 /\ ~IsDigit(w) /\ ContainsKorean(w))

\* the part-of-speech tags the analyser gives in the model; target_pos holds two of them
PosTags == {"NNG", "NNP", "JKS"}
TargetPos == {"NNG", "NNP"}

\* what self._kiwi.analyze can do on a text: raise, or tag each token
KiwiOutcomes(s) ==
    LET ws == Words(s)
    IN {<<"raises", <<>>>>}
       \cup {<<"result", [i \in 1..Len(ws) |-> <<ws[i], p[i]>>]>> : p \in [1..Len(ws) -> PosTags]}

\* _safe_kiwi_analyze: the tokens of a target tag, of two or more characters unless
\* tagged NNP, that are not numbers; the basic analysis when there is none or when
\* the analyser raises
SafeKiwiAnalyze(s, kiwi) ==
    IF kiwi[1] = "raises" THEN BasicAnalyze(s)
    ELSE LET kept == SelectSeq(kiwi[2], LAMBDA t : /\ t[2] \in TargetPos
                                                   /\ (Len(t[1]) >= 2 \/ t[2] = "NNP")
                                                   /\ ~IsDigit(t[1]))
             morphs == [i \in 1..Len(kept) |-> kept[i][1]]
         IN IF morphs # <<>> THEN morphs ELSE BasicAnalyze(s)

\* _filter_stopwords
FilterStopwords(morphs) == SelectSeq(morphs, LAMBDA m : m \notin StopWords)

\* preprocess_text
PreprocessText(s, available, kiwi) ==
    IF s = <<>> \/ Strip(s) = <<>> THEN <<>>
    ELSE LET cleaned_text == CleanText(s)
         IN IF cleaned_text = <<>> THEN <<>>
            ELSE LET morphs == IF available THEN SafeKiwiAnalyze(cleaned_text, kiwi)
                                            ELSE BasicAnalyze(cleaned_text)
                 IN Join(FilterStopwords(morphs), <<" ">>)

\* a record loop that appends what the filter returned, whatever it is
ChunkOfRecordUnguarded(preprocessed, unfiltered) == preprocessed

\* `if preprocessed_search: chunks.append(preprocessed_search) else: chunks.append(search_text)`
ChunkOfRecord(preprocessed, unfiltered) ==
    IF preprocessed # <<>> THEN preprocessed ELSE unfiltered

MaxSearchWords == 3

\* the pieces of a search text: words the filter keeps, a stop word, a single
\* syllable, a Latin word, a number, and the separator of the breadcrumb
SearchPieces == {<<"G", Je>>, <<"U", "E">>, <<"G">>, <<"a", "b">>, <<"1", "2">>, <<"|">>}

InitFilter ==
    /\ sys = "filter"
    /\ search_text = <<>>
    /\ search_words = 0
    /\ kiwi_available \in BOOLEAN
    /\ kiwi_raised = FALSE
    /\ preprocessed_search = <<>>
    /\ embed_text = <<>>
    /\ filter_error = "none"
    /\ fpc = "build"
    /\ /\ ChunkIdle
    /\ ExtractIdle
    /\ MergeIdle
    /\ TableIdle
    /\ RunsIdle
    /\ UploadIdle
    /\ SearchIdle
    /\ IngestIdle
    /\ PdfIdle
    /\ SheetIdle
    /\ StartupIdle
    /\ SyncIdle
    /\ AdminIdle

\* the search text of the record has one more piece
AppendSearchPiece ==
    /\ sys = "filter" /\ fpc = "build"
    /\ search_words < MaxSearchWords
    /\ \E w \in SearchPieces :
          search_text' = IF search_text = <<>> THEN w ELSE search_text \o <<" ">> \o w
    /\ search_words' = search_words + 1
    /\ UNCHANGED <<sys, adminVars, syncVars, startupVars, sheetVars, pdfVars, chunkVars,
                   extractVars, mergeVars, tableVars, runVars, uploadVars, searchVars,
                   ingestVars, kiwi_available, kiwi_raised, preprocessed_search, embed_text,
                   filter_error, fpc>>

\* step 4 of the record loop: the search text is preprocessed and a chunk appended
PreprocessRecord ==
    /\ sys = "filter" /\ fpc = "build"
    /\ \E kiwi \in KiwiOutcomes(CleanText(search_text)) :
          LET analysed == /\ kiwi_available
                          /\ Strip(search_text) # <<>>
                          /\ CleanText(search_text) # <<>>
              pre == PreprocessText(search_text, kiwi_available, kiwi)
          IN /\ kiwi_raised' = (analysed /\ kiwi[1] = "raises")
             /\ preprocessed_search' = pre
             /\ embed_text' = ChunkOfRecord(pre, search_text)
    /\ fpc' = "appended"
    /\ UNCHANGED <<sys, adminVars, syncVars, startupVars, sheetVars, pdfVars, chunkVars,
                   extractVars, mergeVars, tableVars, runVars, uploadVars, searchVars,
                   ingestVars, search_text, search_words, kiwi_available, filter_error>>

NextFilter ==
    \/ AppendSearchPiece
    \/ PreprocessRecord

SpecFilter == InitFilter /\ [][NextFilter]_vars

(***************************************************************************)
(* FileParser._extract_from_pdf: the loop over the pages of a document     *)
(***************************************************************************)

\* the records of the tables of one page, from table table_idx on
RECURSIVE PdfPageTableRecords(_, _, _)
PdfPageTableRecords(tables, table_idx, page_no) ==
    IF table_idx > Len(tables) THEN <<>>
    ELSE LET table == tables[table_idx]
             table_data == IF table # <<>> /\ Len(table) > 1
                           THEN ProcessPdfTable(ProcessTableWithMergedCells(table), table_idx)
                           ELSE <<>>
         IN [k \in 1..Len(table_data) |-> [table_data[k] EXCEPT !.page = page_no]]
            \o PdfPageTableRecords(tables, table_idx + 1, page_no)

\* _process_pdf_text(text, page_num): one record for every line that is not blank
ProcessPdfText(page_text, page_no) ==
    IF page_text = None \/ Strip(page_text) = <<>> THEN <<>>
    ELSE LET lines == StrSplit(Strip(page_text), <<"\n">>)
             kept == SelectSeq([i \in 1..Len(lines) |-> i], LAMBDA i : Strip(lines[i]) # <<>>)
         IN [k \in 1..Len(kept) |->
                [page |-> page_no, table |-> 0, row |-> kept[k], col |-> 1,
                 header |-> <<"t">>, value |-> Strip(lines[kept[k]]),
                 lvl1 |-> <<>>, lvl2 |-> <<>>, lvl3 |-> <<>>,
                 lvl4 |-> Strip(lines[kept[k]]), row_context |-> Strip(lines[kept[k]])]]

\* what one round of the loop over pdf.pages adds to structured_data: the records
\* of the tables if extract_tables found any table, else those of the text lines
PdfPageRecords(page, page_no) ==
    IF page.tables # <<>>
    THEN PdfPageTableRecords(page.tables, 1, page_no)
    ELSE ProcessPdfText(page.page_text, page_no)

MaxPages == 2

\* what page.extract_tables() returns: no table, a table of a header row only, an
\* empty table, a table with a data row, a table whose data row is blank
PageTables ==
    { <<>>,
      << <<TableHeader>> >>,
      << <<>> >>,
      << <<TableHeader, << <<"A">>, <<"X">>, <<" ">>, <<"d">> >> >> >>,
      << <<TableHeader, << None, <<>>, None, None >> >> >> }

\* what page.extract_text() returns: nothing, blank text, two lines around a blank one
PageTexts == { None, <<" ", "\n">>, <<"x", "\n", " ", "\n", "y", " ">> }

InitPdf ==
    /\ sys = "pdf"
    /\ pdf_pages = <<>>
    /\ pdf_data = <<>>
    /\ has_tables = FALSE
    /\ pdf_returned = "none"
    /\ pdfpc = "pages"
    /\ /\ ChunkIdle
    /\ ExtractIdle
    /\ MergeIdle
    /\ TableIdle
    /\ RunsIdle
    /\ UploadIdle
    /\ SearchIdle
    /\ FilterIdle
    /\ IngestIdle
    /\ SheetIdle
    /\ StartupIdle
    /\ SyncIdle
    /\ AdminIdle

\* _extract_from_pdf_fallback: the text PyPDF2 reads from the pages, RuntimeError
\* if it reads none or cannot read the file
PdfFallbackOutcomes == {"text", "RuntimeError"}

\* one round of the loop over pdf.pages; an exception of pdfplumber or of the table
\* processing leaves the loop and the fallback extractor answers
PdfPage ==
    /\ sys = "pdf" /\ pdfpc = "pages"
    /\ Len(pdf_pages) < MaxPages
    /\ \E tables \in PageTables, page_text \in PageTexts, raises \in BOOLEAN :
          LET page == [tables |-> tables, page_text |-> page_text, raises |-> raises]
              page_no == Len(pdf_pages) + 1
          IN /\ pdf_pages' = Append(pdf_pages, page)
             /\ IF raises
                THEN /\ \E o \in PdfFallbackOutcomes : pdf_returned' = o
                     /\ pdfpc' = "returned"
                     /\ UNCHANGED <<pdf_data, has_tables>>
                ELSE /\ pdf_data' = pdf_data \o PdfPageRecords(page, page_no)
                     /\ has_tables' = (has_tables \/ tables # <<>>)
                     /\ UNCHANGED <<pdf_returned, pdfpc>>
    /\ UNCHANGED <<sys, adminVars, syncVars, startupVars, sheetVars, chunkVars, extractVars,
                   mergeVars, tableVars, runVars, uploadVars, searchVars, filterVars,
                   ingestVars>>

\* after the last page: the records if there are any, else the fallback extractor
PdfReturn ==
    /\ sys = "pdf" /\ pdfpc = "pages"
    /\ IF pdf_data # <<>>
       THEN pdf_returned' = "records"
       ELSE \E o \in PdfFallbackOutcomes : pdf_returned' = o
    /\ pdfpc' = "returned"
    /\ UNCHANGED <<sys, adminVars, syncVars, startupVars, sheetVars, chunkVars, extractVars,
                   mergeVars, tableVars, runVars, uploadVars, searchVars, filterVars,
                   ingestVars, pdf_pages, pdf_data, has_tables>>

NextPdf ==
    \/ PdfPage
    \/ PdfReturn

SpecPdf == InitPdf /\ [][NextPdf]_vars

(***************************************************************************)
(* FileParser._extract_from_xlsx: the table range of a sheet and the loop  *)
(* over the sheets of a workbook                                           *)
(***************************************************************************)

\* the end of the run of bordered rows that starts at row r
RECURSIVE BorderRunEnd(_, _)
BorderRunEnd(rows, r) ==
    IF r + 1 <= Len(rows) /\ rows[r + 1].border THEN BorderRunEnd(rows, r + 1) ELSE r

\* _find_table_range_by_border: the first run of rows with a bordered cell
FindTableRangeByBorder(rows) ==
    IF \A r \in 1..Len(rows) : ~rows[r].border THEN <<-1, -1>>
    ELSE LET table_start == CHOOSE r \in 1..Len(rows) :
                                /\ rows[r].border
                                /\ \A q \in 1..(r - 1) : ~rows[q].border
         IN <<table_start, BorderRunEnd(rows, table_start)>>

\* the loop over the rows table_start + 1 .. table_end of a sheet, from row r on,
\* with the labels stored so far
RECURSIVE XlsxSheetRecords(_, _, _, _, _, _, _)
XlsxSheetRecords(rows, r, table_end, sheet, l1, l2, l3) ==
    IF r > table_end THEN <<>>
    ELSE LET row_values == rows[r].cells
             labels == <<CurrentLevel(l1, row_values, lvl1_col_idx),
                         CurrentLevel(l2, row_values, lvl2_col_idx),
                         CurrentLevel(l3, row_values, lvl3_col_idx)>>
         IN RowRecords(row_values, 1, sheet, r, labels)
            \o XlsxSheetRecords(rows, r + 1, table_end, sheet,
                                KeepLevel(l1, row_values, lvl1_col_idx),
                                KeepLevel(l2, row_values, lvl2_col_idx),
                                KeepLevel(l3, row_values, lvl3_col_idx))

\* what one sheet adds to cell_data: nothing if no table range is found
XlsxSheetCellData(rows, sheet) ==
    LET range == FindTableRangeByBorder(rows)
    IN IF range[1] = -1 \/ range[2] = -1 THEN <<>>
       ELSE XlsxSheetRecords(rows, range[1] + 1, range[2], sheet, None, None, None)

MaxSheetRows == 3

\* the rows of a sheet: with or without a bordered cell, with text or blank
SheetRowCells ==
    { <<None, <<"A">>, None, None, <<"d">>, None>>,
      <<None, None, None, None, None, None>> }

InitSheet ==
    /\ sys = "sheet"
    /\ wb_sheets = <<>>
    /\ ws_rows = <<>>
    /\ wb_cell_data = <<>>
    /\ wb_returned = "none"
    /\ wpc = "sheets"
    /\ /\ ChunkIdle
    /\ ExtractIdle
    /\ MergeIdle
    /\ TableIdle
    /\ RunsIdle
    /\ UploadIdle
    /\ SearchIdle
    /\ FilterIdle
    /\ PdfIdle
    /\ IngestIdle
    /\ StartupIdle
    /\ SyncIdle
    /\ AdminIdle

\* the sheet that comes next holds one more row
SheetAddRow ==
    /\ sys = "sheet" /\ wpc = "sheets"
    /\ Len(wb_sheets) < Len(SheetNames)
    /\ Len(ws_rows) < MaxSheetRows
    /\ \E border \in BOOLEAN, cells \in SheetRowCells :
          ws_rows' = Append(ws_rows, [border |-> border, cells |-> cells])
    /\ UNCHANGED <<sys, adminVars, syncVars, startupVars, chunkVars, extractVars, mergeVars,
                   tableVars, runVars, uploadVars, searchVars, filterVars, pdfVars, ingestVars,
                   wb_sheets, wb_cell_data, wb_returned, wpc>>

\* one round of `for sheet_name in workbook.sheetnames`
XlsxSheet ==
    /\ sys = "sheet" /\ wpc = "sheets"
    /\ Len(wb_sheets) < Len(SheetNames)
    /\ ws_rows # <<>>
    /\ wb_sheets' = Append(wb_sheets, ws_rows)
    /\ wb_cell_data' =
           wb_cell_data \o XlsxSheetCellData(ws_rows, SheetNames[Len(wb_sheets) + 1])
    /\ ws_rows' = <<>>
    /\ UNCHANGED <<sys, adminVars, syncVars, startupVars, chunkVars, extractVars, mergeVars,
                   tableVars, runVars, uploadVars, searchVars, filterVars, pdfVars, ingestVars,
                   wb_returned, wpc>>

\* after the last sheet: RuntimeError if cell_data is empty
XlsxReturn ==
    /\ sys = "sheet" /\ wpc = "sheets"
    /\ wb_sheets # <<>> /\ ws_rows = <<>>
    /\ wb_returned' = IF wb_cell_data = <<>> THEN "RuntimeError" ELSE "records"
    /\ wpc' = "returned"
    /\ UNCHANGED <<sys, adminVars, syncVars, startupVars, chunkVars, extractVars, mergeVars,
                   tableVars, runVars, uploadVars, searchVars, filterVars, pdfVars, ingestVars,
                   wb_sheets, ws_rows, wb_cell_data>>

NextSheet ==
    \/ SheetAddRow
    \/ XlsxSheet
    \/ XlsxReturn

SpecSheet == InitSheet /\ [][NextSheet]_vars

(***************************************************************************)
(* Startup: main.lifespan, VectorDatabase._ensure_collection and           *)
(* VectorDatabase.set_embedding_dimension                                  *)
(***************************************************************************)

\* the dimension _ensure_collection uses when self.embedding_dim is None
DefaultDim == 768

\* the dimensions of the embedding models the application can be run with
EmbedderDims == {384, 768, 1024}

MaxStarts == 2
MaxCollPoints == 2

\* _ensure_collection: the vector size of the collection after the call; a
\* collection that exists is left as it is, a new one gets self.embedding_dim,
\* which is the default while the dimension is None
EnsureCollectionSize(existing, dim) ==
    IF existing # 0 THEN existing
    ELSE IF dim = 0 THEN DefaultDim ELSE dim

\* self.embedding_dim after _ensure_collection
EnsureCollectionDim(existing, dim) ==
    IF dim # 0 THEN dim
    ELSE IF existing # 0 THEN existing ELSE DefaultDim

InitStartup ==
    /\ sys = "startup"
    /\ coll_size \in {0} \cup EmbedderDims
    /\ coll_points = 0
    /\ adapter_dim = 0
    /\ embedder_dim = 0
    /\ starts = 0
    /\ insert_rejected = FALSE
    /\ vpc = "down"
    /\ /\ ChunkIdle
    /\ ExtractIdle
    /\ MergeIdle
    /\ TableIdle
    /\ RunsIdle
    /\ UploadIdle
    /\ SearchIdle
    /\ FilterIdle
    /\ PdfIdle
    /\ SheetIdle
    /\ IngestIdle
    /\ SyncIdle
    /\ AdminIdle

\* lifespan, step 1: get_embedder() loads the model
LoadEmbedder ==
    /\ sys = "startup" /\ vpc = "down"
    /\ starts < MaxStarts
    /\ starts' = starts + 1
    /\ \E d \in EmbedderDims : embedder_dim' = d
    /\ vpc' = "embedder"
    /\ UNCHANGED <<sys, adminVars, syncVars, chunkVars, extractVars, mergeVars, tableVars,
                   runVars, uploadVars, searchVars, filterVars, pdfVars, sheetVars, ingestVars,
                   coll_size, coll_points, adapter_dim, insert_rejected>>

\* lifespan, step 2: get_vector_db() constructs the VectorDatabase, whose
\* constructor sets embedding_dim to None and calls _ensure_collection
EnsureCollection ==
    /\ sys = "startup" /\ vpc = "embedder"
    /\ coll_size' = EnsureCollectionSize(coll_size, 0)
    /\ adapter_dim' = EnsureCollectionDim(coll_size, 0)
    /\ vpc' = "ensured"
    /\ UNCHANGED <<sys, adminVars, syncVars, chunkVars, extractVars, mergeVars, tableVars,
                   runVars, uploadVars, searchVars, filterVars, pdfVars, sheetVars, ingestVars,
                   coll_points, embedder_dim, starts, insert_rejected>>

\* lifespan, step 2: vector_db.set_embedding_dimension(model_info["embedding_dim"])
SetEmbeddingDimension ==
    /\ sys = "startup" /\ vpc = "ensured"
    /\ adapter_dim' = embedder_dim
    /\ vpc' = "up"
    /\ UNCHANGED <<sys, adminVars, syncVars, chunkVars, extractVars, mergeVars, tableVars,
                   runVars, uploadVars, searchVars, filterVars, pdfVars, sheetVars, ingestVars,
                   coll_size, coll_points, embedder_dim, starts, insert_rejected>>

\* an upsert of a point whose vector the embedder made; the store takes vectors of
\* the size of the collection only
UpsertVector ==
    /\ sys = "startup" /\ vpc = "up"
    /\ coll_points < MaxCollPoints
    /\ IF embedder_dim = coll_size
       THEN coll_points' = coll_points + 1 /\ UNCHANGED insert_rejected
       ELSE insert_rejected' = TRUE /\ UNCHANGED coll_points
    /\ UNCHANGED <<sys, adminVars, syncVars, chunkVars, extractVars, mergeVars, tableVars,
                   runVars, uploadVars, searchVars, filterVars, pdfVars, sheetVars, ingestVars,
                   coll_size, adapter_dim, embedder_dim, starts, vpc>>

\* the process ends; the collection stays in the store
Shutdown ==
    /\ sys = "startup" /\ vpc = "up"
    /\ vpc' = "down"
    /\ adapter_dim' = 0
    /\ embedder_dim' = 0
    /\ insert_rejected' = FALSE
    /\ UNCHANGED <<sys, adminVars, syncVars, chunkVars, extractVars, mergeVars, tableVars,
                   runVars, uploadVars, searchVars, filterVars, pdfVars, sheetVars, ingestVars,
                   coll_size, coll_points, starts>>

NextStartup ==
    \/ LoadEmbedder
    \/ EnsureCollection
    \/ SetEmbeddingDimension
    \/ UpsertVector
    \/ Shutdown

SpecStartup == InitStartup /\ [][NextStartup]_vars

(***************************************************************************)
(* Board synchronisation: board.sync_board_attachments (background task),  *)
(* board.sync_board_attachments_sync, BoardSyncScheduler.sync_job and      *)
(* board._sync_attachments. All of them are coroutines of one event loop;  *)
(* _sync_attachments awaits nothing that suspends it, so it holds the loop *)
(* from its first statement to its return.                                 *)
(***************************************************************************)

SyncRequests == {1, 2}
SyncOrigins == {"manual", "sync", "scheduler"}
MaxFiles == 2

\* an end of _sync_attachments that leaves the flag as it is when the run failed
EndSyncKeepsFlag(r, status) ==
    /\ is_running' = (status = "error")
    /\ sync_history' = Append(sync_history,
                              [run |-> r, status |-> status,
                               files_processed |-> sync_processed[r]])
    /\ sync_st' = [sync_st EXCEPT ![r] = "done"]
    /\ loop_busy' = 0

\* the way every path of _sync_attachments ends: current_sync_status.update with
\* is_running False, sync_history.append, then return or raise
EndSync(r, status) ==
    /\ is_running' = FALSE
    /\ sync_history' = Append(sync_history,
                              [run |-> r, status |-> status,
                               files_processed |-> sync_processed[r]])
    /\ sync_st' = [sync_st EXCEPT ![r] = "done"]
    /\ loop_busy' = 0

InitSync ==
    /\ sys = "sync"
    /\ sync_st = [r \in SyncRequests |-> "none"]
    /\ sync_origin = [r \in SyncRequests |-> "none"]
    /\ sync_phase = [r \in SyncRequests |-> "none"]
    /\ sync_files = [r \in SyncRequests |-> 0]
    /\ sync_processed = [r \in SyncRequests |-> 0]
    /\ sync_errors = [r \in SyncRequests |-> 0]
    /\ sync_during = [r \in SyncRequests |-> FALSE]
    /\ is_running = FALSE
    /\ sync_history = <<>>
    /\ loop_busy = 0
    /\ /\ ChunkIdle
    /\ ExtractIdle
    /\ MergeIdle
    /\ TableIdle
    /\ RunsIdle
    /\ UploadIdle
    /\ SearchIdle
    /\ FilterIdle
    /\ PdfIdle
    /\ SheetIdle
    /\ StartupIdle
    /\ IngestIdle
    /\ AdminIdle

\* a request reaches the server, or the time of the scheduled job comes
SyncArrive(r) ==
    /\ sys = "sync" /\ sync_st[r] = "none"
    /\ \E o \in SyncOrigins : sync_origin' = [sync_origin EXCEPT ![r] = o]
    /\ sync_st' = [sync_st EXCEPT ![r] = "arrived"]
    /\ sync_during' = [sync_during EXCEPT
                          ![r] = \E q \in SyncRequests : sync_st[q] \in {"accepted", "running"}]
    /\ UNCHANGED <<sys, adminVars, chunkVars, extractVars, mergeVars, tableVars, runVars,
                   uploadVars, searchVars, filterVars, pdfVars, sheetVars, startupVars,
                   ingestVars, sync_phase, sync_files, sync_processed, sync_errors, is_running,
                   sync_history, loop_busy>>

\* sync_board_attachments: 409 if the flag is set, else the background task is added
\* and the response returned
ManualHandler(r) ==
    /\ sys = "sync" /\ loop_busy = 0
    /\ sync_st[r] = "arrived" /\ sync_origin[r] = "manual"
    /\ sync_st' = [sync_st EXCEPT ![r] = IF is_running THEN "rejected" ELSE "accepted"]
    /\ UNCHANGED <<sys, adminVars, chunkVars, extractVars, mergeVars, tableVars, runVars,
                   uploadVars, searchVars, filterVars, pdfVars, sheetVars, startupVars,
                   ingestVars, sync_origin, sync_phase, sync_files, sync_processed, sync_errors,
                   sync_during, is_running, sync_history, loop_busy>>

\* sync_job without a board id or an access token returns at once
SchedulerSkips(r) ==
    /\ sys = "sync" /\ loop_busy = 0
    /\ sync_st[r] = "arrived" /\ sync_origin[r] = "scheduler"
    /\ sync_st' = [sync_st EXCEPT ![r] = "skipped"]
    /\ UNCHANGED <<sys, adminVars, chunkVars, extractVars, mergeVars, tableVars, runVars,
                   uploadVars, searchVars, filterVars, pdfVars, sheetVars, startupVars,
                   ingestVars, sync_origin, sync_phase, sync_files, sync_processed, sync_errors,
                   sync_during, is_running, sync_history, loop_busy>>

\* the first statements of _sync_attachments, called by the background task, by
\* sync_board_attachments_sync or by sync_job
StartSync(r) ==
    /\ sys = "sync" /\ loop_busy = 0
    /\ IF sync_origin[r] = "manual" THEN sync_st[r] = "accepted" ELSE sync_st[r] = "arrived"
    /\ is_running' = TRUE
    /\ sync_st' = [sync_st EXCEPT ![r] = "running"]
    /\ sync_phase' = [sync_phase EXCEPT ![r] = "search"]
    /\ loop_busy' = r
    /\ UNCHANGED <<sys, adminVars, chunkVars, extractVars, mergeVars, tableVars, runVars,
                   uploadVars, searchVars, filterVars, pdfVars, sheetVars, startupVars,
                   ingestVars, sync_origin, sync_files, sync_processed, sync_errors,
                   sync_during, sync_history>>

\* steps 1 and 2: get_board_service and search_posts_by_title
SearchPosts(r) ==
    /\ sys = "sync" /\ sync_st[r] = "running" /\ sync_phase[r] = "search"
    /\ \E o \in {"raises", "no_posts", "found"} :
          IF o = "raises"
          THEN EndSync(r, "error") /\ UNCHANGED sync_phase
          ELSE IF o = "no_posts"
          THEN EndSync(r, "no_posts_found") /\ UNCHANGED sync_phase
          ELSE /\ sync_phase' = [sync_phase EXCEPT ![r] = "download"]
               /\ UNCHANGED <<sync_st, is_running, sync_history, loop_busy>>
    /\ UNCHANGED <<sys, adminVars, chunkVars, extractVars, mergeVars, tableVars, runVars,
                   uploadVars, searchVars, filterVars, pdfVars, sheetVars, startupVars,
                   ingestVars, sync_origin, sync_files, sync_processed, sync_errors,
                   sync_during>>

\* step 3: get_all_attachments_from_posts
GetAttachments(r) ==
    /\ sys = "sync" /\ sync_st[r] = "running" /\ sync_phase[r] = "download"
    /\ \E raises \in BOOLEAN, n \in 0..MaxFiles :
          IF raises
          THEN EndSync(r, "error") /\ UNCHANGED <<sync_phase, sync_files>>
          ELSE IF n = 0
          THEN EndSync(r, "no_attachments") /\ UNCHANGED <<sync_phase, sync_files>>
          ELSE /\ sync_phase' = [sync_phase EXCEPT ![r] = "files"]
               /\ sync_files' = [sync_files EXCEPT ![r] = n]
               /\ UNCHANGED <<sync_st, is_running, sync_history, loop_busy>>
    /\ UNCHANGED <<sys, adminVars, chunkVars, extractVars, mergeVars, tableVars, runVars,
                   uploadVars, searchVars, filterVars, pdfVars, sheetVars, startupVars,
                   ingestVars, sync_origin, sync_processed, sync_errors, sync_during>>

\* step 4, one round of the loop over the attachments: _process_and_store_file
\* returns, or raises an exception that is logged and added to errors
ProcessAttachment(r) ==
    /\ sys = "sync" /\ sync_st[r] = "running" /\ sync_phase[r] = "files"
    /\ sync_files[r] > 0
    /\ sync_files' = [sync_files EXCEPT ![r] = @ - 1]
    /\ \E raises \in BOOLEAN :
          IF raises
          THEN /\ sync_errors' = [sync_errors EXCEPT ![r] = @ + 1]
               /\ UNCHANGED sync_processed
          ELSE /\ sync_processed' = [sync_processed EXCEPT ![r] = @ + 1]
               /\ UNCHANGED sync_errors
    /\ UNCHANGED <<sys, adminVars, chunkVars, extractVars, mergeVars, tableVars, runVars,
                   uploadVars, searchVars, filterVars, pdfVars, sheetVars, startupVars,
                   ingestVars, sync_st, sync_origin, sync_phase, sync_during, is_running,
                   sync_history, loop_busy>>

\* after the loop over the attachments
FinishSync(r) ==
    /\ sys = "sync" /\ sync_st[r] = "running" /\ sync_phase[r] = "files"
    /\ sync_files[r] = 0
    /\ EndSync(r, "success")
    /\ UNCHANGED <<sys, adminVars, chunkVars, extractVars, mergeVars, tableVars, runVars,
                   uploadVars, searchVars, filterVars, pdfVars, sheetVars, startupVars,
                   ingestVars, sync_origin, sync_phase, sync_files, sync_processed, sync_errors,
                   sync_during>>

NextSync ==
    \E r \in SyncRequests :
        \/ SyncArrive(r)
        \/ ManualHandler(r)
        \/ SchedulerSkips(r)
        \/ StartSync(r)
        \/ SearchPosts(r)
        \/ GetAttachments(r)
        \/ ProcessAttachment(r)
        \/ FinishSync(r)

SpecSync == InitSync /\ [][NextSync]_vars

\* a run that has started goes on: every call it makes returns or raises
SpecSyncFair ==
    /\ SpecSync
    /\ \A r \in SyncRequests :
          /\ WF_vars(SearchPosts(r))
          /\ WF_vars(GetAttachments(r))
          /\ WF_vars(ProcessAttachment(r))
          /\ WF_vars(FinishSync(r))

(***************************************************************************)
(* Admin-only endpoints: auth.verify_admin, upload.upload_file,            *)
(* upload.upload_file_sync, upload.delete_document,                        *)
(* board.sync_board_attachments and board.sync_board_attachments_sync      *)
(***************************************************************************)

\* the organisation unit whose members are administrators (ASCII stand-in)
AdminOrg == "AI_SW_Unit"

MaxRequests == 2

\* the Authorization header: absent, one word, or two words whose first is
\* "Bearer" or "bearer"
AuthHeaders == {"none", "malformed", "Bearer", "bearer"}

\* what a request to NAVER WORKS gives: a status code, or 0 when requests.get raises
ApiStatuses == {200, 401, 0}

\* "organizations" of the user detail: a list of organisations, each the list of
\* the names of its "orgUnits"
DetailOrgs ==
    {<<>>, <<<<>>>>, <<<<AdminOrg>>>>, <<<<"Other">>>>, <<<<"Other", AdminOrg>>>>,
     <<<<"Other">>, <<AdminOrg>>>>}

AdminRequests ==
    [header : AuthHeaders, info_status : ApiStatuses, detail_status : ApiStatuses,
     orgs : DetailOrgs]

DocumentIds == {1, 2}

\* the organisation name verify_admin extracts: the name of the first unit of the
\* first organisation, "" when there is none
OrgName(orgs) ==
    IF Len(orgs) > 0 /\ Len(orgs[1]) > 0 THEN orgs[1][1] ELSE ""

\* verify_admin: the status code of the HTTPException it raises, or the value it returns
VerifyAdmin(req) ==
    IF req.header = "none" THEN "401"
    ELSE IF req.header = "malformed" THEN "401"
    ELSE IF req.info_status = 0 THEN "500"
    ELSE IF req.info_status # 200 THEN "401"
    ELSE IF req.detail_status = 0 THEN "500"
    ELSE IF req.detail_status # 200 THEN "False"
    ELSE IF OrgName(req.orgs) # AdminOrg THEN "403"
    ELSE "True"

\* whether the call of verify_admin raised
Raised(v) == v \in {"401", "403", "500"}

\* the status code of the HTTPException verify_admin raised
RaisedStatus(v) == IF v = "401" THEN 401 ELSE IF v = "403" THEN 403 ELSE 500

InitAdmin ==
    /\ sys = "admin"
    /\ admin_req = <<>>
    /\ admin_op = "none"
    /\ verify_result = "none"
    /\ response_status = 0
    /\ admin_effect = "none"
    /\ admin_store \in SUBSET DocumentIds
    /\ handled = 0
    /\ /\ ChunkIdle
    /\ ExtractIdle
    /\ MergeIdle
    /\ TableIdle
    /\ RunsIdle
    /\ UploadIdle
    /\ SearchIdle
    /\ FilterIdle
    /\ PdfIdle
    /\ SheetIdle
    /\ StartupIdle
    /\ SyncIdle
    /\ IngestIdle

\* upload_file and upload_file_sync: await verify_admin(authorization), whose value
\* is not used; then _validate_file, file.read() and the processing of the content
UploadFile(op) ==
    /\ sys = "admin" /\ handled < MaxRequests
    /\ \E req \in AdminRequests, file_valid \in BOOLEAN :
         LET v == VerifyAdmin(req) IN
         /\ admin_req' = req
         /\ verify_result' = v
         /\ IF Raised(v)
            THEN response_status' = RaisedStatus(v) /\ admin_effect' = "none"
            ELSE IF ~file_valid
            THEN response_status' = 400 /\ admin_effect' = "none"
            ELSE response_status' = 200 /\ admin_effect' = "file_read"
    /\ admin_op' = op
    /\ handled' = handled + 1
    /\ UNCHANGED <<sys, chunkVars, extractVars, mergeVars, tableVars, runVars, uploadVars,
                   searchVars, filterVars, pdfVars, sheetVars, startupVars, syncVars,
                   ingestVars, admin_store>>

\* delete_document: await verify_admin(authorization), whose value is not used; then
\* vector_db.delete_document(file_id)
DeleteDocument ==
    /\ sys = "admin" /\ handled < MaxRequests
    /\ \E req \in AdminRequests, doc_id \in DocumentIds :
         LET v == VerifyAdmin(req) IN
         /\ admin_req' = req
         /\ verify_result' = v
         /\ IF Raised(v)
            THEN /\ response_status' = RaisedStatus(v)
                 /\ admin_effect' = "none"
                 /\ UNCHANGED admin_store
            ELSE IF doc_id \notin admin_store
            THEN /\ response_status' = 404
                 /\ admin_effect' = "none"
                 /\ UNCHANGED admin_store
            ELSE /\ response_status' = 200
                 /\ admin_effect' = "document_deleted"
                 /\ admin_store' = admin_store \ {doc_id}
    /\ admin_op' = "delete"
    /\ handled' = handled + 1
    /\ UNCHANGED <<sys, chunkVars, extractVars, mergeVars, tableVars, runVars, uploadVars,
                   searchVars, filterVars, pdfVars, sheetVars, startupVars, syncVars,
                   ingestVars>>

\* sync_board_attachments and sync_board_attachments_sync: await
\* verify_admin(authorization), whose value is not used; the first then tests
\* current_sync_status["is_running"], which no handler finds set because a run
\* holds the event loop to its end; both then take the token of a header that
\* starts with "Bearer " and start the synchronisation
SyncBoardAttachments(op) ==
    /\ sys = "admin" /\ handled < MaxRequests
    /\ \E req \in AdminRequests :
         LET v == VerifyAdmin(req) IN
         /\ admin_req' = req
         /\ verify_result' = v
         /\ IF Raised(v)
            THEN response_status' = RaisedStatus(v) /\ admin_effect' = "none"
            ELSE IF op = "sync" /\ is_running
            THEN response_status' = 409 /\ admin_effect' = "none"
            ELSE IF req.header # "Bearer"
            THEN response_status' = 401 /\ admin_effect' = "none"
            ELSE response_status' = 200 /\ admin_effect' = "sync_started"
    /\ admin_op' = op
    /\ handled' = handled + 1
    /\ UNCHANGED <<sys, chunkVars, extractVars, mergeVars, tableVars, runVars, uploadVars,
                   searchVars, filterVars, pdfVars, sheetVars, startupVars, syncVars,
                   ingestVars, admin_store>>

NextAdmin ==
    \/ UploadFile("upload")
    \/ UploadFile("upload_sync")
    \/ DeleteDocument
    \/ SyncBoardAttachments("sync")
    \/ SyncBoardAttachments("sync_sync")

SpecAdmin == InitAdmin /\ [][NextAdmin]_vars

(***************************************************************************)
(* Claims about TextChunker, checked under SpecChunk                       *)
(***************************************************************************)

\* ' '.join(s.split()): whitespace normalisation of one chunk
Normalize(c) == Join(Words(c), <<" ">>)

NormalizeAll(cs) == [i \in 1..Len(cs) |-> Normalize(cs[i])]

\* the last k words of ws
LastWords(ws, k) == SubSeq(ws, Len(ws) - k + 1, Len(ws))

\* a sentence _split_long_sentence cannot split: too long, no delimiter, and no
\* whitespace before the length limit
Unsplittable(s, max) ==
    /\ Len(s) > max
    /\ \A d \in 1..Len(Delimiters) : ~Contains(s, Delimiters[d])
    /\ RFindSpace(s, max) = -1

\* chunk c holds text of an unsplittable sentence of the input
HoldsUnsplittable(c) ==
    \E j \in 1..Len(sentences) :
        /\ Unsplittable(sentences[j], maxLen)
        /\ Contains(c, Take(sentences[j], maxLen))

\* C1 (as claimed): every chunk chunk_text returns, overlap prefix included, is at
\* most max_chunk_length long unless it holds an unsplittable sentence.
C1_ChunkLengthBound ==
    cpc # "input" =>
        \A i \in 1..Len(out) : Len(out[i]) <= maxLen \/ HoldsUnsplittable(out[i])

\* cur begins with a non-empty run of trailing whole words of prev, at most
\* overlap characters long and ending at a word boundary
BeginsWithTrailingWords(prev, cur, overlap) ==
    LET ws == Words(prev)
    IN \E k \in 1..Len(ws) :
           LET p == Join(LastWords(ws, k), <<" ">>)
           IN /\ Len(p) <= overlap
              /\ Len(cur) > Len(p)
              /\ Take(cur, Len(p) + 1) = p \o <<" ">>

\* C9 (as claimed): with overlap_length > 0, every chunk after the first that
\* chunk_text returns begins with trailing whole words of its predecessor whenever
\* the predecessor is longer than overlap_length.
C9_OverlapPrefixOriginal ==
    (cpc # "input" /\ overlapLen > 0) =>
        \A i \in 2..Len(out) :
            Len(out[i - 1]) > overlapLen =>
                BeginsWithTrailingWords(out[i - 1], out[i], overlapLen)

\* the last word of chunk c together with one separating space fits in the overlap
LastWordFits(c, overlap) ==
    LET ws == Words(c)
    IN ws # <<>> /\ Len(ws[Len(ws)]) + 1 <= overlap

\* C9 (amended): with overlap_length > 0, every chunk after the first that
\* _create_chunks builds (before the minimum-length filter of chunk_text) is its
\* packed chunk preceded by a non-empty run of trailing whole words of its
\* predecessor and one space, the run being at most overlap_length long, whenever
\* the predecessor as packed is longer than overlap_length and its last word plus
\* one space fits in overlap_length.
C9_OverlapPrefix ==
    (cpc # "input" /\ overlapLen > 0) =>
        \A i \in 2..Len(chunks) :
            (Len(packed[i - 1]) > overlapLen /\ LastWordFits(packed[i - 1], overlapLen)) =>
                /\ BeginsWithTrailingWords(chunks[i - 1], chunks[i], overlapLen)
                /\ \E k \in 1..Len(Words(packed[i - 1])) :
                       chunks[i] = Join(LastWords(Words(packed[i - 1]), k), <<" ">>)
                                   \o <<" ">> \o packed[i]

\* C9 witness: a second chunk that received an overlap from a long enough predecessor
C9_Witness ==
    /\ cpc = "chunked"
    /\ overlapLen > 0
    /\ Len(chunks) >= 2
    /\ Len(packed[1]) > overlapLen
    /\ LastWordFits(packed[1], overlapLen)
    /\ chunks[2] # packed[2]
    /\ Len(out) >= 2

\* C10 (as claimed): chunking the space-joined output again returns the same chunks
\* up to whitespace normalisation. Stated for the runs in which every chunk of
\* both passes is within max_chunk_length, so that a violation does not rest on
\* the oversized chunks of C1.
C10_IdempotentOriginal ==
    (/\ cpc = "rechunked"
     /\ \A i \in 1..Len(out) : Len(out[i]) <= maxLen
     /\ \A i \in 1..Len(out2) : Len(out2[i]) <= maxLen) =>
        NormalizeAll(out2) = NormalizeAll(out)

\* C10 (amended): with overlap_length = 0 and no sentence of the text longer than
\* max_chunk_length, chunking the space-joined output again returns the same
\* chunks up to whitespace normalisation.
C10_IdempotentNoOverlap ==
    (/\ cpc = "rechunked"
     /\ overlapLen = 0
     /\ \A j \in 1..Len(sentences) : Len(sentences[j]) <= maxLen) =>
        NormalizeAll(out2) = NormalizeAll(out)

\* C10 witness: a text of short sentences re-chunked without overlap into the same
\* two or more chunks
C10_Witness ==
    /\ cpc = "rechunked"
    /\ overlapLen = 0
    /\ \A j \in 1..Len(sentences) : Len(sentences[j]) <= maxLen
    /\ Len(out) >= 2
    /\ out2 = out

\* C11 (as claimed): chunk_text discards a chunk if and only if its trimmed length is
\* below 10: every chunk _create_chunks builds whose trimmed length is 10 or more is
\* in the output, and no chunk of the output is shorter than 10.
C11_MinLengthFilter ==
    cpc # "input" =>
        /\ \A i \in 1..Len(chunks) :
               Len(Strip(chunks[i])) >= MinChunkLen =>
                   \E j \in 1..Len(out) : out[j] = Strip(chunks[i])
        /\ \A j \in 1..Len(out) : Len(out[j]) >= MinChunkLen

\* the text holds none of the sentence-ending characters
NoSentenceBreak(t) == \A i \in 1..Len(t) : t[i] \notin SentenceEndings

\* C12 (as claimed): a text of exactly max_chunk_length characters without a sentence
\* break gives exactly one chunk, of exactly max_chunk_length characters.
C12_ExactLengthOriginal ==
    (cpc # "input" /\ Len(text) = maxLen /\ NoSentenceBreak(text)) =>
        (Len(out) = 1 /\ Len(out[1]) = maxLen)

\* the text neither begins nor ends with whitespace and holds no line break
Trimmed(t) ==
    /\ t # <<>>
    /\ ~IsSpace(t[1])
    /\ ~IsSpace(t[Len(t)])
    /\ \A i \in 1..Len(t) : t[i] # "\n"

\* C12 (amended): with max_chunk_length above 10, a text of exactly max_chunk_length
\* characters that holds no sentence break and no line break and neither begins nor
\* ends with whitespace gives exactly one chunk, the text itself.
C12_ExactLengthTrimmed ==
    (/\ cpc # "input"
     /\ maxLen > MinChunkLen
     /\ Len(text) = maxLen
     /\ NoSentenceBreak(text)
     /\ Trimmed(text)) =>
        out = <<text>>

\* C12 witness: a trimmed text of exactly max_chunk_length characters, with a comma
\* delimiter inside, came out as one chunk
C12_Witness ==
    /\ cpc = "chunked"
    /\ Len(text) = maxLen
    /\ NoSentenceBreak(text)
    /\ Trimmed(text)
    /\ Contains(text, <<",", " ">>)
    /\ out = <<text>>

(***************************************************************************)
(* Claims about the extractors, checked under SpecExtract                  *)
(***************************************************************************)

\* the label written in column col of the i-th row read: empty for a None or blank cell
OwnLabel(i, col) ==
    LET c == sheet_rows[i].cells[col] IN IF c = None THEN <<>> ELSE Normalize(c)

\* the rows of the sheet of row i read up to and including row i that have a label
\* of their own in column col
LabelledUpTo(i, col) ==
    {j \in 1..i : sheet_rows[j].sheet = sheet_rows[i].sheet /\ OwnLabel(j, col) # <<>>}

\* the label of the nearest row at or before row i, in the same sheet, with a label
\* of its own in column col; empty if there is none
ForwardFilled(i, col) ==
    IF LabelledUpTo(i, col) = {} THEN <<>>
    ELSE OwnLabel(CHOOSE j \in LabelledUpTo(i, col) : \A k \in LabelledUpTo(i, col) : k <= j, col)

\* the index in sheet_rows of the row a record was emitted for
RowOf(rec) == CHOOSE i \in 1..Len(sheet_rows) :
                  sheet_rows[i].sheet = rec.sheet /\ sheet_rows[i].row = rec.row

\* row i gives column col a label that differs from the one in force before it
Changes(i, col) ==
    /\ OwnLabel(i, col) # <<>>
    /\ OwnLabel(i, col) # (IF i > 1 /\ sheet_rows[i - 1].sheet = sheet_rows[i].sheet
                           THEN ForwardFilled(i - 1, col) ELSE <<>>)

\* the label in column col that row i carries was set at or after the last change
\* of the columns in parents
SetSinceChange(i, col, parents) ==
    \E j \in LabelledUpTo(i, col) :
        \A k \in (j + 1)..i : \A pc \in parents : ~Changes(k, pc)

\* C2 (as claimed): in the records of a spreadsheet a change of lvl1 resets lvl2 and
\* lvl3 to empty and a change of lvl2 resets lvl3 to empty: no record carries an
\* lvl2 or lvl3 label that was last set before the most recent change of its parent
\* label.
C2_ParentChangeResets ==
    fmt = "xlsx" =>
        \A n \in 1..Len(cell_data) :
            LET rec == cell_data[n]
                i == RowOf(rec)
            IN /\ rec.lvl2 # <<>> => SetSinceChange(i, lvl2_col_idx, {lvl1_col_idx})
               /\ rec.lvl3 # <<>> => SetSinceChange(i, lvl3_col_idx, {lvl1_col_idx, lvl2_col_idx})

\* C7: every spreadsheet record carries, for each of lvl1, lvl2 and lvl3, the label
\* of its own row or else of the nearest preceding row of the same sheet whose cell
\* for that level was not empty, and the empty string (never None) if there is no
\* such row; labels A, empty, B fill as A, A, B.
C7_ForwardFill ==
    fmt = "xlsx" =>
        \A i \in 1..Len(sheet_rows) :
            LET l1 == ForwardFilled(i, lvl1_col_idx)
                l2 == ForwardFilled(i, lvl2_col_idx)
                l3 == ForwardFilled(i, lvl3_col_idx)
            IN \A n \in 1..Len(cell_data) :
                   (cell_data[n].sheet = sheet_rows[i].sheet /\ cell_data[n].row = sheet_rows[i].row) =>
                       /\ cell_data[n].lvl1 = l1 /\ cell_data[n].lvl2 = l2 /\ cell_data[n].lvl3 = l3
                       /\ None \notin {cell_data[n].lvl1, cell_data[n].lvl2, cell_data[n].lvl3}

\* C7 witness: three rows of one sheet with the lvl1 cells A, empty, B whose records
\* carry A, A, B
C7_Witness ==
    /\ fmt = "xlsx"
    /\ \E a, b, c \in 1..Len(cell_data) :
          /\ cell_data[a].sheet = cell_data[b].sheet
          /\ cell_data[b].sheet = cell_data[c].sheet
          /\ cell_data[a].row + 1 = cell_data[b].row
          /\ cell_data[b].row + 1 = cell_data[c].row
          /\ OwnLabel(RowOf(cell_data[a]), lvl1_col_idx) = <<"A">>
          /\ OwnLabel(RowOf(cell_data[b]), lvl1_col_idx) = <<>>
          /\ OwnLabel(RowOf(cell_data[c]), lvl1_col_idx) = <<"B", " ", "B">>
          /\ cell_data[a].lvl1 = <<"A">>
          /\ cell_data[b].lvl1 = <<"A">>
          /\ cell_data[c].lvl1 = <<"B", " ", "B">>

\* the records of data are still there, unchanged and in place, in data2
KeepsRecords(data, data2) ==
    /\ Len(data2) >= Len(data)
    /\ \A i \in 1..Len(data) : data2[i] = data[i]

\* C8: no step of the spreadsheet scan or of the paragraph scan modifies a record
\* that was already emitted; a label change only affects the records emitted after.
C8_EmittedRecordsFrozen ==
    [][KeepsRecords(cell_data, cell_data') /\ KeepsRecords(structured_data, structured_data')]_vars

\* C8 witness: a record emitted under one lvl1 label still carries it after a later
\* row of the same sheet changed the label and emitted its own record
C8_Witness ==
    /\ fmt = "xlsx"
    /\ \E a, b \in 1..Len(cell_data) :
          /\ a < b
          /\ cell_data[a].sheet = cell_data[b].sheet
          /\ cell_data[a].lvl1 = <<"A">>
          /\ cell_data[b].lvl1 = <<"B", " ", "B">>
          /\ Changes(RowOf(cell_data[b]), lvl1_col_idx)

\* the labels of the i-th paragraph record, and of no record for i = 0
DocxLabels(i) ==
    IF i = 0 THEN << <<>>, <<>>, <<>> >>
    ELSE <<structured_data[i].lvl1, structured_data[i].lvl2, structured_data[i].lvl3>>

\* the kinds of paragraph the scan tells apart
IsArticle(t) == ArticleMatch(t) # NoMatch
IsCircled(t) == ~IsArticle(t) /\ t # <<>> /\ Head(t) \in CircledNumerals
IsSubItem(t) == ~IsArticle(t) /\ ~IsCircled(t) /\ (NumberedMatch(t) \/ HangulMatch(t))

\* what the rule prescribes for a circled-numeral paragraph, a sub-item and any other
\* paragraph that is not an article heading, given the labels before it
FollowsLowerRules(t, before, after) ==
    /\ IsCircled(t) => after = <<before[1], t, <<>> >>
    /\ IsSubItem(t) => after = <<before[1], before[2], t>>
    /\ (~IsArticle(t) /\ ~IsCircled(t) /\ ~IsSubItem(t)) => after = before

\* the tracker holds the labels of the last record
TrackerIsLastRecord ==
    <<current_lvl1, current_lvl2, current_lvl3>> = DocxLabels(Len(structured_data))

\* C13 (as claimed): in the paragraph scan a paragraph matching the article-heading
\* pattern sets lvl1 and clears lvl2 and lvl3; otherwise a circled-numeral paragraph
\* sets lvl2 and clears lvl3, keeping lvl1; otherwise a numbered or lettered sub-item
\* sets lvl3 only; any other paragraph changes none; each record carries the tracker
\* state after the update.
C13_PriorityRuleOriginal ==
    fmt = "docx" =>
        /\ TrackerIsLastRecord
        /\ \A i \in 1..Len(structured_data) :
               LET t == structured_data[i].value
               IN /\ IsArticle(t) =>
                          DocxLabels(i) = <<Strip(ArticleMatch(t)), <<>>, <<>> >>
                  /\ FollowsLowerRules(t, DocxLabels(i - 1), DocxLabels(i))

\* C13 (amended): a paragraph matching the article-heading pattern whose bracket
\* content is not blank sets lvl1 to that content, trimmed, and clears lvl2 and lvl3;
\* one whose bracket content is blank changes none of the three; the other three
\* cases and the snapshot are as claimed.
C13_PriorityRule ==
    fmt = "docx" =>
        /\ TrackerIsLastRecord
        /\ \A i \in 1..Len(structured_data) :
               LET t == structured_data[i].value
               IN /\ (IsArticle(t) /\ Strip(ArticleMatch(t)) # <<>>) =>
                          DocxLabels(i) = <<Strip(ArticleMatch(t)), <<>>, <<>> >>
                  /\ (IsArticle(t) /\ Strip(ArticleMatch(t)) = <<>>) =>
                          DocxLabels(i) = DocxLabels(i - 1)
                  /\ FollowsLowerRules(t, DocxLabels(i - 1), DocxLabels(i))

\* C13 witness: under an article heading a sub-item was followed by a circled-numeral
\* paragraph, which cleared lvl3 and kept lvl1, and then by a new article heading,
\* which cleared lvl2
C13_Witness ==
    /\ fmt = "docx"
    /\ Len(structured_data) = 4
    /\ IsArticle(structured_data[1].value)
    /\ IsSubItem(structured_data[2].value)
    /\ IsCircled(structured_data[3].value)
    /\ IsArticle(structured_data[4].value)
    /\ structured_data[2].lvl3 # <<>>
    /\ DocxLabels(3) = <<structured_data[1].lvl1, structured_data[3].value, <<>> >>
    /\ structured_data[4].lvl1 \notin {<<>>, structured_data[1].lvl1}
    /\ structured_data[4].lvl2 = <<>>

(***************************************************************************)
(* Claims about merged-cell resolution, checked under SpecMerge            *)
(***************************************************************************)

\* the resolution has returned
MergeDone == sys = "merge" /\ mpc = "fill" /\ range_no > Len(merged_ranges)

\* the top-left cell of the i-th range holds a value
HasValue(i) == sheet_cells[TopLeft(merged_ranges[i])] # None

\* C6 (as claimed): after the resolution, for every merge range whose top-left cell
\* holds a non-empty value, every cell of the range holds exactly that value,
\* whatever the number, order or overlap of the ranges.
C6_RangeFilledOriginal ==
    MergeDone =>
        \A i \in 1..Len(merged_ranges) :
            sheet_cells[TopLeft(merged_ranges[i])] \notin {None, <<>>} =>
                \A c \in RangeCells(merged_ranges[i]) :
                    cell_values[c] = sheet_cells[TopLeft(merged_ranges[i])]

\* C6 (amended): after the resolution, for every merge range whose top-left cell
\* holds a value, every cell of the range that no later-listed range with a valued
\* top-left cell covers holds exactly that value; so when no two ranges with a
\* valued top-left cell overlap, every cell of every such range holds the value of
\* its range's top-left cell, whatever the number and order of the ranges.
C6_RangeFilledLastWins ==
    MergeDone =>
        \A i \in 1..Len(merged_ranges) :
            HasValue(i) =>
                \A c \in RangeCells(merged_ranges[i]) :
                    (\A j \in (i + 1)..Len(merged_ranges) :
                        ~(HasValue(j) /\ c \in RangeCells(merged_ranges[j]))) =>
                            cell_values[c] = sheet_cells[TopLeft(merged_ranges[i])]

\* C6 witness: two ranges with different values that share a cell have been resolved,
\* and the shared cell holds the value of the range listed last
C6_Witness ==
    /\ MergeDone
    /\ Len(merged_ranges) = 2
    /\ HasValue(1) /\ HasValue(2)
    /\ sheet_cells[TopLeft(merged_ranges[1])] # sheet_cells[TopLeft(merged_ranges[2])]
    /\ \E c \in RangeCells(merged_ranges[1]) \cap RangeCells(merged_ranges[2]) :
          cell_values[c] = sheet_cells[TopLeft(merged_ranges[2])]
    /\ \A c \in RangeCells(merged_ranges[2]) :
          cell_values[c] = sheet_cells[TopLeft(merged_ranges[2])]

(***************************************************************************)
(* Claims about ingestion, checked under SpecIngest                        *)
(***************************************************************************)

\* the store holds no document of this run
NothingStored == \A d \in store : d \in StoredBefore

\* the number of upsert calls whose failure was followed by a retry
Retries ==
    Cardinality({i \in 1..Len(outcomes) : i < max_retries /\ outcomes[i] \in TransientOutcomes})

\* C3: insert_documents retries the upsert only after a transient transport error,
\* issues at most max_retries upsert calls, waits 1 s before the first retry and 2 s
\* before the second, returns the document id at the first success and raises the
\* fatal error when all max_retries calls have failed; any other error ends the run
\* without a retry.
C3_RetryPolicy ==
    sys = "ingest" =>
        LET k == Len(outcomes)
        IN /\ k <= max_retries
           /\ \A i \in 1..(k - 1) : outcomes[i] \in TransientOutcomes
           /\ Len(waits) = Retries
           /\ \A i \in 1..Len(waits) : waits[i] = i
           /\ \A i \in 2..Len(waits) : waits[i] > waits[i - 1]
           /\ ipc = "upsert" => (attempt = k /\ Len(waits) = k /\ k < max_retries)
           /\ (k > 0 /\ outcomes[k] = "ok") <=> returned # "none"
           /\ returned # "none" =>
                  (ipc = "done" /\ returned = NewFileId /\ error = "none" /\ returned = file_id)
           /\ (k > 0 /\ outcomes[k] = "other_error") =>
                  (ipc = "failed" /\ error = "Exception:upsert")
           /\ (k = max_retries /\ outcomes[k] \in TransientOutcomes) =>
                  (ipc = "failed" /\ error = "RuntimeError:max_retries"
                   /\ Len(waits) = max_retries - 1)
           /\ error = "RuntimeError:max_retries" =>
                  (k = max_retries /\ \A i \in 1..k : outcomes[i] \in TransientOutcomes)

\* C3 witness: two transient failures, waits of 1 s and 2 s, success at the third call
C3_Witness ==
    /\ sys = "ingest"
    /\ Len(outcomes) = max_retries
    /\ outcomes[1] \in TransientOutcomes
    /\ outcomes[2] \in TransientOutcomes
    /\ outcomes[3] = "ok"
    /\ waits = <<1, 2>>
    /\ returned = NewFileId
    /\ ipc = "done"

\* the embedder has returned its vectors
EmbedderReturned == embed_calls > 0 /\ error # "Exception:encode_batch"

\* C4: if the embedding step returns a number of vectors different from the number of
\* chunk texts, the run ends with an error and no upsert is issued; the same holds
\* for insert_documents called with lists of different length.
C4_CountMismatchNoUpsert ==
    (/\ sys = "ingest"
     /\ n_embeddings # n_chunks
     /\ \/ route # "direct" /\ EmbedderReturned
        \/ route = "direct" /\ ipc # "insert") =>
        /\ ipc = "failed"
        /\ error \in {"RuntimeError:count_mismatch", "ValueError:count_mismatch"}
        /\ outcomes = <<>>
        /\ file_id = "none"
        /\ returned = "none"
        /\ NothingStored

\* C4 witness: the embedder returned fewer vectors than there are chunks and the run
\* failed without an upsert
C4_Witness ==
    /\ sys = "ingest"
    /\ route \in {"upload", "board"}
    /\ EmbedderReturned
    /\ n_chunks > 0
    /\ n_embeddings < n_chunks
    /\ ipc = "failed"
    /\ outcomes = <<>>

\* the file of the run yields no record, a text below the minimum, or no chunk
YieldsNothing ==
    \/ doc.ext = ".xlsx" /\ doc.n = 0
    \/ doc.n = 0 /\ Len(Strip(doc.text)) < MinTextLen
    \/ n_chunks = 0

\* C5: a run whose file yields no record, a text shorter than the minimum or no
\* chunk at all fails with an error before the embedder is called: nothing is
\* embedded and nothing is stored.
C5_NothingToEmbed ==
    (/\ sys = "ingest"
     /\ route # "direct"
     /\ ipc \notin {"start", "extract", "extracted"}
     /\ YieldsNothing) =>
        /\ ipc = "failed"
        /\ error \in {"RuntimeError:extract_text", "ValueError:no_records",
                      "ValueError:short_text", "ValueError:no_chunks"}
        /\ embed_calls = 0
        /\ outcomes = <<>>
        /\ NothingStored

\* C5 witness: a text of the minimum length whose only chunk was discarded
C5_Witness ==
    /\ sys = "ingest"
    /\ route = "upload"
    /\ extracted_kind = "text"
    /\ Len(Strip(doc.text)) >= MinTextLen
    /\ n_chunks = 0
    /\ error = "ValueError:no_chunks"
    /\ embed_calls = 0

(***************************************************************************)
(* Claims about table extraction, checked under SpecTable                  *)
(***************************************************************************)

\* the table with index table_idx as it was handed to process_table_with_merged_cells
RawTable(table_idx) ==
    raw_tables[CHOOSE k \in 1..Len(raw_tables) : raw_tables[k][1] = table_idx][2]

\* the row of the document a record was made from
RawRowOf(rec) == RawTable(rec.table)[rec.row + 1]

\* C14: a record's lvl4 comes from its own row only: a record of a table row whose
\* fourth cell, the detail cell, is missing, empty or blank has an empty lvl4, whatever
\* the rows above it hold.
C14_Lvl4FromOwnRow ==
    sys = "table" =>
        \A i \in 1..Len(table_records) :
            LET row == RawRowOf(table_records[i])
            IN (Len(row) < 4 \/ ~HasText(row[4])) => table_records[i].lvl4 = <<>>

\* the data row, counted from the top of the table, whose value an empty cell of row r
\* and column c takes: the nearest row above with a cell that is not blank, 0 if none
NearestAbove(t, r, c) ==
    LET above == {q \in 2..(r - 1) : c <= Len(t[q]) /\ HasText(t[q][c])}
    IN IF above = {} THEN 0 ELSE CHOOSE q \in above : \A q2 \in above : q2 <= q

InBlockingCall(r) == rpc[r] \in {"embed", "upsert", "sleep"}

\* C16: batch embedding, the upsert and the backoff wait run off the request-handling
\* thread: while a run is inside one of them, the event loop thread of its server is
\* not executing that run, so it can take steps for other requests.
C16_BlockingCallsOffLoop ==
    sys = "runs" => \A r \in Runs : InBlockingCall(r) => loop_thread[run_server[r]] # r

\* the points of the collection that carry the file id of run r
StoredPointsOf(r) == {p \in qdrant : p.file_id = run_file_id[r]}

\* C17: every run generates at most one document id, and exactly one once it has come
\* to storage; two runs never hold the same id; every point a run builds or writes
\* carries the run's id; the chunk indices of its points are 0..n-1, each once; and every
\* point of the collection belongs to one run.
C17_OneIdPerRun ==
    sys = "runs" =>
        /\ \A r \in Runs :
               /\ run_ids[r] <= 1
               /\ (rpc[r] \in {"upsert", "sleep", "done"} => run_ids[r] = 1 /\ run_file_id[r] # 0)
               /\ (run_file_id[r] = 0 => run_points[r] = <<>>)
               /\ Len(run_points[r]) \in {0, run_n[r]}
               /\ \A j \in 1..Len(run_points[r]) :
                      /\ run_points[r][j].file_id = run_file_id[r]
                      /\ run_points[r][j].chunk_index = j - 1
               /\ \A p \in StoredPointsOf(r) : p.chunk_index \in 0..(run_n[r] - 1)
               /\ \A p, q \in StoredPointsOf(r) : p.chunk_index = q.chunk_index => p = q
               /\ (rpc[r] = "done" =>
                       {p.chunk_index : p \in StoredPointsOf(r)} = 0..(run_n[r] - 1))
        /\ \A r1, r2 \in Runs :
               r1 # r2 /\ run_file_id[r1] # 0 => run_file_id[r1] # run_file_id[r2]
        /\ \A p \in qdrant : \E r \in Runs : run_file_id[r] # 0 /\ p.file_id = run_file_id[r]

\* two runs on different servers have both stored two chunks, the second run built its
\* points before the first, and the first run needed a second attempt
C17_Witness ==
    /\ sys = "runs"
    /\ run_server[1] # run_server[2]
    /\ rpc[1] = "done" /\ rpc[2] = "done"
    /\ run_n[1] = 2 /\ run_n[2] = 2
    /\ run_file_id[2] < run_file_id[1]
    /\ run_attempt[1] = 1
    /\ Cardinality(qdrant) = 4

(***************************************************************************)
(* Claims about the order of the stages of a run, checked under SpecIngest *)
(***************************************************************************)

\* the storage stage has started: insert_documents generated an id or issued an upsert
StorageStarted == file_id # "none" \/ outcomes # <<>>

\* the errors each stage ends a run with
ExtractionErrors == {"RuntimeError:extract_text"}

ChunkingErrors == {"ValueError:no_records", "ValueError:short_text", "ValueError:no_chunks"}

EmbeddingErrors == {"Exception:encode_batch", "RuntimeError:count_mismatch"}

\* C18: in a run of _process_file the stages come in the order extraction, chunking,
\* embedding, storage: chunks exist only after extraction has returned its data, the
\* embedder is called once and only with a non-empty chunk list, storage starts only
\* after the embedder returned one vector for every chunk, and a run that a stage ended
\* with an error has entered no later stage and returns nothing.
C18_StagesInOrder ==
    (sys = "ingest" /\ route # "direct") =>
        /\ (n_chunks > 0 \/ ipc \in {"extracted", "embed", "insert", "upsert", "done"})
               => extracted_kind # "none"
        /\ embed_calls <= 1
        /\ (embed_calls > 0 \/ ipc \in {"embed", "insert", "upsert", "done"}) => n_chunks > 0
        /\ (ipc \in {"insert", "upsert", "done"} \/ StorageStarted)
               => embed_calls = 1 /\ n_embeddings = n_chunks
        /\ ipc = "done" => StorageStarted /\ returned = file_id
        /\ error \in ExtractionErrors
               => extracted_kind = "none" /\ n_chunks = 0 /\ embed_calls = 0 /\ ~StorageStarted
        /\ error \in ChunkingErrors => embed_calls = 0 /\ ~StorageStarted
        /\ error \in EmbeddingErrors => ~StorageStarted
        /\ error # "none" <=> ipc = "failed"
        /\ ipc = "failed" => returned = "none"

\* an uploaded file went through all four stages, and the upsert needed a second attempt
C18_Witness ==
    /\ sys = "ingest" /\ route = "upload"
    /\ ipc = "done"
    /\ extracted_kind = "text"
    /\ n_chunks >= 2
    /\ embed_calls = 1
    /\ Len(outcomes) = 2
    /\ returned = file_id

(***************************************************************************)
(* Claims about the checks on an uploaded file, checked under SpecUpload   *)
(***************************************************************************)

\* the file name has no extension, or one that is not supported
UnsupportedExtension(name) ==
    ~Contains(name, <<".">>) \/ SplitExtension(name) \notin SUPPORTED_EXTENSIONS

\* C19: a file with an unsupported extension, a name without a dot included, or of more
\* than MAX_FILE_SIZE bytes is rejected with a validation error: the endpoint never
\* answers that it accepted or processed the file, no parser is called, and the request
\* ends with the answer 400.
C19_RejectedBeforeParsing ==
    (/\ sys = "upload" /\ upc # "naming"
     /\ filename # <<>>
     /\ UnsupportedExtension(filename) \/ file_size > MAX_FILE_SIZE)
        => /\ response \notin {"accepted", "success"}
           /\ parser_calls = <<>>
           /\ upc \in {"rejected", "finished"} => response = "400"

(***************************************************************************)
(* Claims about search_similar, checked under SpecSearch                   *)
(***************************************************************************)

\* C20: search_similar returns an empty list only when the store answered and no point
\* scores at least the threshold, and a search whose transport failed raises an error
\* instead of returning.
C20_EmptyMeansNoHit ==
    (sys = "search" /\ spc = "searched") =>
        /\ (search_raised = "none" /\ results = <<>>)
               => transport = "answered" /\ Hits(scored_points, score_threshold) = {}
        /\ transport = "failed" => search_raised # "none"

(***************************************************************************)
(* Claims about the stop-word filter, checked under SpecFilter             *)
(***************************************************************************)

\* C21 as stated: whenever the analyser raised or the filter returned nothing, the
\* text appended for the record is the unfiltered search text, and no exception
\* leaves the record loop.
C21_FallbackToSearchText ==
    fpc = "appended" =>
        /\ filter_error = "none"
        /\ (kiwi_raised \/ preprocessed_search = <<>>) => embed_text = search_text

\* the result of the basic analysis of the search text, stop words removed
BasicResult == Join(FilterStopwords(BasicAnalyze(CleanText(search_text))), <<" ">>)

\* C21 amended: no exception leaves the record loop; when the filter returned
\* nothing the appended text is the unfiltered search text; when the analyser
\* raised, the appended text is the result of the basic analysis, and the
\* unfiltered search text only if that result is empty.
C21_FallbackWhenEmpty ==
    fpc = "appended" =>
        /\ filter_error = "none"
        /\ preprocessed_search = <<>> => embed_text = search_text
        /\ kiwi_raised => embed_text = IF BasicResult = <<>> THEN search_text ELSE BasicResult

\* the analyser raised on a search text of which the filter keeps nothing
C21_Witness ==
    /\ fpc = "appended"
    /\ kiwi_raised
    /\ preprocessed_search = <<>>
    /\ search_text # <<>>
    /\ embed_text = search_text


(***************************************************************************)
(* Claims about the pages of a PDF document, checked under SpecPdf         *)
(***************************************************************************)

\* the records of page page_no in what the extractor returned
ReturnedOfPage(page_no) ==
    IF pdf_returned = "records"
    THEN SelectSeq(pdf_data, LAMBDA rec : rec.page = page_no)
    ELSE <<>>

\* what a page gives by itself: the records of its tables or, if they give none,
\* the records of its text lines
PageRecordsExpected(page, page_no) ==
    LET table_data == PdfPageTableRecords(page.tables, 1, page_no)
    IN IF table_data # <<>> THEN table_data ELSE ProcessPdfText(page.page_text, page_no)

\* C22: when the extractor has returned, every page it went through has given, by
\* itself, the records of its tables or, if the tables give none, one record for
\* each of its non-blank text lines, and none if neither gives any; what another
\* page did changes nothing of this.
C22_PagesIndependent ==
    pdfpc = "returned" =>
        \A p \in 1..Len(pdf_pages) :
            ReturnedOfPage(p) = IF pdf_pages[p].raises THEN <<>>
                                ELSE PageRecordsExpected(pdf_pages[p], p)

(***************************************************************************)
(* Claims about a workbook without a table, checked under SpecSheet        *)
(***************************************************************************)

\* the rows of the workbook that hold text
TextRows ==
    {<<k, r>> \in (1..Len(wb_sheets)) \X (1..MaxSheetRows) :
        /\ r <= Len(wb_sheets[k])
        /\ RowContext(wb_sheets[k][r].cells) # <<>>}

\* C23: a workbook that holds text and in which no sheet has a table range is not
\* an extraction error: the extractor returns one record for each row with text,
\* whose lvl4 is the text of the row and whose other levels are empty.
C23_NoTableIsPlainText ==
    (/\ wpc = "returned"
     /\ TextRows # {}
     /\ \A k \in 1..Len(wb_sheets) : FindTableRangeByBorder(wb_sheets[k])[1] = -1)
    => /\ wb_returned = "records"
       /\ Len(wb_cell_data) = Cardinality(TextRows)
       /\ \A i \in 1..Len(wb_cell_data) :
             /\ \E k \in 1..Len(wb_sheets) :
                   /\ SheetNames[k] = wb_cell_data[i].sheet
                   /\ wb_cell_data[i].lvl4 = RowContext(wb_sheets[k][wb_cell_data[i].row].cells)
             /\ wb_cell_data[i].lvl1 = <<>>
             /\ wb_cell_data[i].lvl2 = <<>>
             /\ wb_cell_data[i].lvl3 = <<>>

(***************************************************************************)
(* Claims about the vector size of the collection, checked under           *)
(* SpecStartup                                                             *)
(***************************************************************************)

\* C24: the vector size of a collection that exists never changes, and once the
\* application is up the embedding dimension of the adapter is the vector size of
\* the collection, whatever the dimension of the embedder.
C24_DimensionIsVectorSize ==
    /\ [][coll_size # 0 => coll_size' = coll_size]_vars
    /\ [](vpc = "up" => adapter_dim = coll_size)

(***************************************************************************)
(* Claims about _split_long_sentence, checked under SpecChunk              *)
(***************************************************************************)

\* the sentences of the text that _create_chunks hands to _split_long_sentence
LongSentences == {i \in 1..Len(sentences) : Len(sentences[i]) > maxLen}

\* the pieces the packing gives with delimiter d, none if the sentence lacks it
DelimiterPieces(s, d) ==
    IF Contains(s, Delimiters[d])
    THEN PackParts(StrSplit(s, Delimiters[d]), 1, Delimiters[d], <<>>, maxLen)
    ELSE <<>>

\* the delimiters that split the sentence into more than one piece
SplittingDelimiters(s) == {d \in 1..Len(Delimiters) : Len(DelimiterPieces(s, d)) > 1}

\* the pieces occur in s one after the other, from position p on
RECURSIVE InOrderFrom(_, _, _)
InOrderFrom(pieces, s, p) ==
    IF pieces = <<>> THEN TRUE
    ELSE LET at == {i \in p..(Len(s) - Len(Head(pieces)) + 1) : MatchAt(s, Head(pieces), i)}
         IN /\ at # {}
            /\ InOrderFrom(Tail(pieces), s,
                           (CHOOSE i \in at : \A j \in at : i <= j) + Len(Head(pieces)))

\* every piece but the last ends at the last space among the first lim characters
\* of what was left of the sentence, or after lim characters if there is no space;
\* the last piece is what was left
RECURSIVE BrokenAtLastSpace(_, _, _)
BrokenAtLastSpace(pieces, rest, lim) ==
    IF Len(rest) <= lim THEN pieces = (IF rest = <<>> THEN <<>> ELSE <<rest>>)
    ELSE /\ pieces # <<>>
         /\ LET piece == Head(pieces)
                spaces == {i \in 1..lim : rest[i] = " "}
            IN /\ piece = Take(rest, Len(piece))
               /\ IF spaces = {} THEN Len(piece) = lim
                  ELSE /\ Len(piece) + 1 \in spaces
                       /\ \A i \in spaces : i <= Len(piece) + 1
               /\ BrokenAtLastSpace(Tail(pieces), Strip(Drop(rest, Len(piece) + 1)), lim)

C26_OneSyncAtATime ==
    /\ Cardinality({r \in SyncRequests : sync_st[r] \in {"accepted", "running"}}) <= 1
    /\ \A r \in SyncRequests :
          sync_during[r] => sync_st[r] \in {"arrived", "rejected"}

\* the entries of the history that run r appended
EntriesOf(r) == SelectSeq(sync_history, LAMBDA e : e.run = r)

\* C30: every run of _sync_attachments that has started ends with is_running false;
\* it has appended no entry to the history before it ends and exactly one when it
\* has ended; and when it has ended no attachment is left unprocessed, so a file
\* that failed has not stopped the files after it.
C30_EveryRunEnds ==
    /\ \A r \in SyncRequests :
          (sync_st[r] = "running") ~> (sync_st[r] = "done" /\ ~is_running)
    /\ [](\A r \in SyncRequests :
             /\ Len(EntriesOf(r)) = IF sync_st[r] = "done" THEN 1 ELSE 0
             /\ sync_st[r] = "done" => sync_files[r] = 0)

\* a run that has ended after one of its files failed and a later one was processed
C30_Witness ==
    \E r \in SyncRequests :
        /\ sync_st[r] = "done"
        /\ sync_errors[r] > 0
        /\ sync_processed[r] > 0
        /\ ~is_running
        /\ Len(EntriesOf(r)) = 1
        /\ EntriesOf(r)[1].status = "success"


(***************************************************************************)
(* Claims about the admin-only endpoints, checked under SpecAdmin          *)
(***************************************************************************)

\* verify_admin has established that the user of the token of the last request
\* belongs to the admin organisation
AdminEstablished ==
    /\ verify_result = "True"
    /\ OrgName(admin_req.orgs) = AdminOrg

\* C27: an admin-only operation (upload, deletion, synchronisation) proceeds only
\* when verify_admin has established that the user of the token belongs to the
\* admin organisation; for every other outcome of verify_admin the request ends
\* before a file is read, a document deleted or a synchronisation started
C27_AdminOnly ==
    admin_op # "none" =>
        (admin_effect # "none" => AdminEstablished)


(***************************************************************************)
(* Claims about the retry loop of insert_documents, checked under SpecRuns *)
(***************************************************************************)

\* the ids of run r do not change once they are generated
IdsKept(r) ==
    /\ run_file_id[r] # 0 => run_file_id'[r] = run_file_id[r]
    /\ run_points[r] # <<>> => run_points'[r] = run_points[r]

\* C28: insert_documents generates the document id and the point ids once, before the
\* retry loop, and every attempt uses them again; so however many upserts of a run the
\* store applied (an upsert whose response failed and that was retried included), the
\* store holds at most one point per chunk of the run, all of them points the run built
\* under its one document id, and exactly one per chunk once one upsert was applied.
C28_RetriesReuseIds ==
    /\ [][sys = "runs" => \A r \in Runs : IdsKept(r)]_vars
    /\ [](sys = "runs" =>
            \A r \in Runs :
                /\ \A p \in StoredPointsOf(r) : \E j \in 1..Len(run_points[r]) : p = run_points[r][j]
                /\ Cardinality(StoredPointsOf(r)) =
                       (IF run_applied[r] = 0 THEN 0 ELSE run_n[r])
                /\ \A p \in qdrant :
                       \A j \in 1..Len(run_points[r]) :
                           p.id = run_points[r][j].id => p = run_points[r][j])

\* a run of two chunks returned its document id at the third attempt, after two upserts
\* that the store applied and whose responses failed
C28_Witness ==
    /\ sys = "runs"
    /\ rpc[1] = "done"
    /\ run_n[1] = 2
    /\ run_attempt[1] = 2
    /\ run_applied[1] = 3
    /\ Cardinality(StoredPointsOf(1)) = 2


(***************************************************************************)
(* Claims about the re-ingestion of a board attachment, checked under      *)
(* SpecIngest                                                              *)
(***************************************************************************)

\* the document step 1 found under the file name is in the store
OldStored == \E d \in store : d.file_id = file_id_to_delete

\* the document of this run is in the store
NewStored == \E d \in store : d.file_id = NewFileId /\ d.file_name = FileName

====
